---- MODULE Spec2Model ----
(***************************************************************************)
(* BinanceCommonDataClient                                                 *)
(* (src/nautilus_trader/adapters/binance/common/data.py) as a state        *)
(* machine: the order book subscribe coroutine with its buffer of stream   *)
(* deltas, the websocket handler of book diff frames, the bar subscribe    *)
(* coroutine and the historical trade tick and bar requests.               *)
(*                                                                         *)
(* A coroutine is one action per stretch of code between two awaits; the   *)
(* websocket handler is synchronous and is one action.                     *)
(***************************************************************************)
EXTENDS Integers, Sequences, FiniteSets, TLC

(***************************************************************************)
(* Bounds of the model.                                                    *)
(***************************************************************************)
\* the venue emits, per symbol, the book deltas with sequence 1..MaxSeq
MaxSeq == 2
\* number of _subscribe_order_book invocations in a run
MaxCalls == 2
\* the same, in the runs that draw every book type, update speed and depth
MaxValidationCalls == 1
\* number of _request_trade_ticks and _request_bars invocations in a run
MaxRequests == 1
\* the longest list of ticks or bars in a venue response
MaxItems == 2
\* number of _subscribe_bars invocations in a run
MaxBarCalls == 2
\* number of _connect invocations in a run
MaxConnects == 2
\* number of _disconnect invocations in a run
MaxDisconnects == 2
\* number of load_all_async calls of the refresh tasks in a run
MaxReloads == 2
\* the same three, and the book subscriptions and bar requests, in the runs
\* where a session is disconnected while they are in flight
MaxLifeConnects == 2
MaxLifeDisconnects == 1
MaxLifeReloads == 1
MaxLifeCalls == 1
MaxLifeRequests == 1
\* number of _handle_ws_message calls in the runs of the dispatcher
MaxFrames == 2
\* number of _subscribe_order_book invocations beside the dispatcher
MaxFrameCalls == 1

\* the frames of the book streams handled, and the book subscriptions beside them
MaxRoutedFrames == 2
MaxRoutedCalls == 1

\* the book subscriptions of two instruments, and the sequences of their streams
MaxPairCalls == 2
MaxPairSeq == 1

(***************************************************************************)
(* Optional values: None is the empty tuple, a given value x is <<x>>.     *)
(***************************************************************************)
None == <<>>

Some(x) == <<x>>

ValueOf(opt) == opt[1]

(***************************************************************************)
(* Inputs.                                                                 *)
(***************************************************************************)
AccountTypes == {"SPOT", "USDT_FUTURE"}

Symbols == {"BTCUSDT", "ETHUSDT"}

BookTypes == {"L2_MBP", "L3_MBO"}

\* update_speed arguments: absent, valid for no mode, valid for futures only,
\* valid for spot only
Speeds == {None, Some(50), Some(250), Some(1000)}

\* depth arguments: absent, zero, a snapshot depth, inside 1..20 but no
\* snapshot depth, the largest snapshot depth, beyond every snapshot depth
Depths == {None, Some(0), Some(5), Some(7), Some(20), Some(50)}

CallIds == 1..MaxCalls

VARIABLES
    account_type,     \* self._binance_account_type
    instrument_ids,   \* self._instrument_ids: nautilus symbol -> InstrumentId
    book_buffer,      \* self._book_buffer: InstrumentId -> list of deltas
    sub_calls,        \* the _subscribe_order_book coroutines, by invocation
    n_calls,          \* invocations of _subscribe_order_book so far
    stream_seq,       \* per symbol, the sequence of the last diff frame handled
    data,             \* what _handle_data was given, in order
    ws_calls,         \* calls made on self._ws_client, in order
    http_calls,       \* calls made on self._http_market, in order
    log_errors,       \* what self._log.error was given, in order
    use_agg_trade_ticks,  \* self._use_agg_trade_ticks
    bar_calls,        \* the _subscribe_bars coroutines, by invocation
    n_bar_calls,      \* invocations of _subscribe_bars so far
    subscriptions_bars,   \* what _add_subscription_bars was given
    req_calls,        \* the _request_trade_ticks and _request_bars coroutines
    n_requests,       \* invocations of the two so far
    responses,        \* what _handle_trade_ticks, _handle_bars and
                      \* _handle_data_response were given
    ws_raised,        \* exceptions that left _handle_ws_message, so far
    n_frames,         \* calls of _handle_ws_message, so far
    last_frame,       \* the frame the last of them was given
    connect_calls,    \* the _connect coroutines, by invocation
    disconnect_calls, \* the _disconnect coroutines, by invocation
    tasks,            \* the tasks create_task made of _update_instruments
    update_instruments_task   \* self._update_instruments_task

\* the configuration, fixed at construction
configVars == <<account_type, use_agg_trade_ticks>>

\* the order book subscriptions and the diff stream
bookVars == <<instrument_ids, book_buffer, sub_calls, n_calls, stream_seq>>

\* the bar subscriptions
barVars == <<bar_calls, n_bar_calls, subscriptions_bars>>

\* the historical requests
reqVars == <<req_calls, n_requests, responses>>

\* the calls of _handle_ws_message
frameVars == <<ws_raised, n_frames, last_frame>>

\* the session: connecting, disconnecting and the instrument refresh task
sessionVars == <<connect_calls, disconnect_calls, tasks, update_instruments_task>>

vars == <<account_type, instrument_ids, book_buffer, sub_calls, n_calls,
          stream_seq, data, ws_calls, http_calls, log_errors,
          use_agg_trade_ticks, bar_calls, n_bar_calls, subscriptions_bars,
          req_calls, n_requests, responses, ws_raised, n_frames, last_frame,
          connect_calls, disconnect_calls, tasks, update_instruments_task>>

(***************************************************************************)
(* BinanceAccountType.is_futures / is_spot_or_margin (enums.py).           *)
(***************************************************************************)
IsFutures(at) == at \in {"USDT_FUTURE", "COIN_FUTURE"}

IsSpotOrMargin(at) == at \in {"SPOT", "MARGIN_CROSS", "MARGIN_ISOLATED"}

(***************************************************************************)
(* BinanceSymbol.parse_as_nautilus: a venue symbol is its own nautilus     *)
(* symbol on spot and margin, and the perpetual's symbol on futures.       *)
(***************************************************************************)
PerpSymbol(symbol) ==
    CASE symbol = "BTCUSDT" -> "BTCUSDT-PERP"
      [] symbol = "ETHUSDT" -> "ETHUSDT-PERP"

ParseAsNautilus(symbol, at) ==
    IF IsSpotOrMargin(at) THEN symbol ELSE PerpSymbol(symbol)

\* InstrumentId(Symbol(nautilus_symbol), BINANCE_VENUE)
InstrumentId(nautilus_symbol) == <<nautilus_symbol, "BINANCE">>

SymbolValue(instrument_id) == instrument_id[1]

\* the instrument ids of the account type in use
InstrumentIds == {InstrumentId(ParseAsNautilus(s, account_type)) : s \in Symbols}

(***************************************************************************)
(* dict helpers                                                            *)
(***************************************************************************)
DictSet(d, k, v) == [x \in DOMAIN d \cup {k} |-> IF x = k THEN v ELSE d[x]]

\* a pop that empties the dict
DictClear(d, k) == << >>

DictPop(d, k) ==
    IF DOMAIN d \ {k} = {} THEN << >> ELSE [x \in DOMAIN d \ {k} |-> d[x]]

DictGet(d, k, default) == IF k \in DOMAIN d THEN d[k] ELSE default

(***************************************************************************)
(* Records.                                                                *)
(***************************************************************************)
\* an OrderBookDeltas parsed from a diff frame: the code reads its sequence
Deltas(instrument_id, sequence) ==
    [instrument_id |-> instrument_id, sequence |-> sequence]

\* one call of _handle_data.  kind tells the snapshot of
\* request_order_book_snapshot from the deltas of the stream; call is the
\* invocation number for a delivery by _subscribe_order_book and 0 for any
\* other (history, the code keeps neither)
Delivery(kind, deltas, call) ==
    [kind |-> kind, instrument_id |-> deltas.instrument_id,
     sequence |-> deltas.sequence, call |-> call]

\* an interval of BinanceKlineInterval: f"{step}{resolution}" as the pair
NoInterval == <<0, "">>

\* one call on self._ws_client: the method and its arguments (depth, speed and
\* interval where the method takes them), and the invocation that made it
WsCall(op, symbol, depth, speed, interval, call) ==
    [op |-> op, symbol |-> symbol, depth |-> depth, speed |-> speed,
     interval |-> interval, call |-> call]

\* one call on self._http_market, likewise
HttpCall(op, instrument_id, limit, start_time, end_time, call) ==
    [op |-> op, instrument_id |-> instrument_id, limit |-> limit,
     start_time |-> start_time, end_time |-> end_time, call |-> call]

\* a _subscribe_order_book coroutine: its arguments, its locals after the
\* defaults, and where it stands
SubCall(pc, instrument_id, book_type, arg_speed, arg_depth, update_speed, depth) ==
    [pc |-> pc, instrument_id |-> instrument_id, book_type |-> book_type,
     arg_speed |-> arg_speed, arg_depth |-> arg_depth,
     update_speed |-> update_speed, depth |-> depth]

IdleCall == SubCall("idle", InstrumentId(""), "", None, None, 0, 0)

\* __init__, lines 100-181, for the configurations given
InitConfig(account_types, agg_trade_ticks) ==
    /\ account_type \in account_types
    /\ use_agg_trade_ticks \in agg_trade_ticks
    /\ bar_calls = << >>
    /\ n_bar_calls = 0
    /\ subscriptions_bars = {}
    /\ req_calls = << >>
    /\ n_requests = 0
    /\ responses = << >>
    /\ ws_raised = 0
    /\ n_frames = 0
    /\ last_frame = None
    /\ connect_calls = << >>
    /\ disconnect_calls = << >>
    /\ tasks = << >>
    /\ update_instruments_task = None
    /\ instrument_ids = << >>
    /\ book_buffer = << >>
    /\ sub_calls = [c \in CallIds |-> IdleCall]
    /\ n_calls = 0
    /\ stream_seq = [s \in Symbols |-> 0]
    /\ data = << >>
    /\ ws_calls = << >>
    /\ http_calls = << >>
    /\ log_errors = << >>

\* use_agg_trade_ticks is read by _request_trade_ticks alone
Init == InitConfig(AccountTypes, {FALSE})

(***************************************************************************)
(* _subscribe_order_book, lines 258-325.                                   *)
(***************************************************************************)
\* lines 273-277
ValidSpeeds(at) == IF IsFutures(at) THEN {0, 100, 250, 500} ELSE {100, 1000}

\* a default that ignores the market mode
DefaultSpeedOfSpot(at) == 100

\* lines 274-279
DefaultSpeed(at) == IF IsFutures(at) THEN 0 ELSE 100

EffectiveSpeed(at, update_speed) ==
    IF update_speed = None THEN DefaultSpeed(at) ELSE ValueOf(update_speed)

\* lines 288-289
EffectiveDepth(depth) == IF depth = None THEN 0 ELSE ValueOf(depth)

\* a range test without the lower bound
UpToTwenty(depth) == depth <= 20

\* line 295
InSnapshotRange(depth) == 0 < depth /\ depth <= 20

\* a depth test that takes every depth from 5 on
AtLeastFive(depth) == depth >= 5

\* line 296
IsSnapshotDepth(depth) == depth \in {5, 10, 20}

\* a staleness test that keeps the batch of the snapshot's own sequence
IsOlder(deltas, snapshot) ==
    snapshot # None /\ deltas.sequence < ValueOf(snapshot).sequence

\* line 323: a buffered batch the snapshot already holds
IsStale(deltas, snapshot) ==
    snapshot # None /\ deltas.sequence <= ValueOf(snapshot).sequence

\* lines 321-325: what the loop over the popped buffer gives _handle_data
RECURSIVE FlushBuffer(_, _, _)
FlushBuffer(buffer, snapshot, call) ==
    IF buffer = << >> THEN << >>
    ELSE IF IsStale(Head(buffer), snapshot)
         THEN FlushBuffer(Tail(buffer), snapshot, call)
         ELSE <<Delivery("deltas", Head(buffer), call)>>
                  \o FlushBuffer(Tail(buffer), snapshot, call)

\* lines 265-307 and 316-319: from the call to its first await or return
SubscribeOrderBook(instrument_id, book_type, update_speed, depth) ==
    LET c == n_calls + 1
        speed == EffectiveSpeed(account_type, update_speed)
        d == EffectiveDepth(depth)
        call(pc) == SubCall(pc, instrument_id, book_type, update_speed, depth, speed, d)
    IN  /\ n_calls' = c
        /\ UNCHANGED <<account_type, instrument_ids, stream_seq, data, http_calls>>
        /\ UNCHANGED <<use_agg_trade_ticks, barVars, reqVars, sessionVars, frameVars>>
        /\ IF book_type = "L3_MBO"
           THEN \* lines 265-271
                /\ log_errors' = Append(log_errors, "invalid book_type")
                /\ sub_calls' = [sub_calls EXCEPT ![c] = call("rejected_book_type")]
                /\ UNCHANGED <<book_buffer, ws_calls>>
           ELSE IF speed \notin ValidSpeeds(account_type)
           THEN \* lines 280-286
                /\ log_errors' = Append(log_errors, "invalid update_speed")
                /\ sub_calls' = [sub_calls EXCEPT ![c] = call("rejected_speed")]
                /\ UNCHANGED <<book_buffer, ws_calls>>
           ELSE \* line 292
                /\ book_buffer' = DictSet(book_buffer, instrument_id, << >>)
                /\ IF InSnapshotRange(d) /\ ~IsSnapshotDepth(d)
                   THEN \* lines 296-302
                        /\ log_errors' = Append(log_errors, "invalid depth")
                        /\ sub_calls' = [sub_calls EXCEPT ![c] = call("rejected_depth")]
                        /\ UNCHANGED ws_calls
                   ELSE IF InSnapshotRange(d)
                   THEN \* lines 303-307
                        /\ ws_calls' = Append(ws_calls,
                               WsCall("subscribe_partial_book_depth",
                                      SymbolValue(instrument_id), d, speed, NoInterval, c))
                        /\ sub_calls' = [sub_calls EXCEPT ![c] = call("await_subscribe_partial")]
                        /\ UNCHANGED log_errors
                   ELSE \* lines 316-319
                        /\ ws_calls' = Append(ws_calls,
                               WsCall("subscribe_diff_book_depth",
                                      SymbolValue(instrument_id), 0, speed, NoInterval, c))
                        /\ sub_calls' = [sub_calls EXCEPT ![c] = call("await_subscribe_diff")]
                        /\ UNCHANGED log_errors

\* lines 303-313: subscribe_partial_book_depth returned, the snapshot is requested
PartialDepthSubscribed(c) ==
    /\ sub_calls[c].pc = "await_subscribe_partial"
    /\ http_calls' = Append(http_calls,
           HttpCall("request_order_book_snapshot", sub_calls[c].instrument_id,
                    sub_calls[c].depth, None, None, c))
    /\ sub_calls' = [sub_calls EXCEPT ![c].pc = "await_snapshot"]
    /\ UNCHANGED <<account_type, instrument_ids, book_buffer, n_calls, stream_seq,
                   data, ws_calls, log_errors>>
    /\ UNCHANGED <<use_agg_trade_ticks, barVars, reqVars, sessionVars, frameVars>>

\* lines 309-325: the snapshot arrived, with the sequence the venue gave it
SnapshotArrived(c, sequence) ==
    LET id == sub_calls[c].instrument_id
        snapshot == Deltas(id, sequence)
        buffer == DictGet(book_buffer, id, << >>)
    IN  /\ sub_calls[c].pc = "await_snapshot"
        /\ data' = data \o <<Delivery("snapshot", snapshot, c)>>
                        \o FlushBuffer(buffer, Some(snapshot), c)
        /\ book_buffer' = DictPop(book_buffer, id)
        /\ sub_calls' = [sub_calls EXCEPT ![c].pc = "done"]
        /\ UNCHANGED <<account_type, instrument_ids, n_calls, stream_seq,
                       ws_calls, http_calls, log_errors>>
        /\ UNCHANGED <<use_agg_trade_ticks, barVars, reqVars, sessionVars, frameVars>>

\* lines 316-325: subscribe_diff_book_depth returned, snapshot is None
DiffDepthSubscribed(c) ==
    LET id == sub_calls[c].instrument_id
        buffer == DictGet(book_buffer, id, << >>)
    IN  /\ sub_calls[c].pc = "await_subscribe_diff"
        /\ data' = data \o FlushBuffer(buffer, None, c)
        /\ book_buffer' = DictPop(book_buffer, id)
        /\ sub_calls' = [sub_calls EXCEPT ![c].pc = "done"]
        /\ UNCHANGED <<account_type, instrument_ids, n_calls, stream_seq,
                       ws_calls, http_calls, log_errors>>
        /\ UNCHANGED <<use_agg_trade_ticks, barVars, reqVars, sessionVars, frameVars>>

\* lines 303, 309, 316: the awaited network call raised, which ends the coroutine
NetworkCallRaised(c) ==
    /\ sub_calls[c].pc \in {"await_subscribe_partial", "await_snapshot",
                            "await_subscribe_diff"}
    /\ sub_calls' = [sub_calls EXCEPT ![c].pc = "raised"]
    /\ UNCHANGED <<account_type, instrument_ids, book_buffer, n_calls, stream_seq,
                   data, ws_calls, http_calls, log_errors>>
    /\ UNCHANGED <<use_agg_trade_ticks, barVars, reqVars, sessionVars, frameVars>>

(***************************************************************************)
(* The websocket handler, lines 541-631.  A stream name is the tuple of    *)
(* its characters, so that `handler in wrapper.stream` is the substring    *)
(* test it is in the code.                                                 *)
(***************************************************************************)
\* a test that looks for the first character of the fragment alone
HasFirstCharacter(fragment, stream) ==
    \E k \in 1..Len(stream) : stream[k] = fragment[1]

\* a test that leaves the last character of the fragment out
IsSubstringButLast(fragment, stream) ==
    \E k \in 0..(Len(stream) - Len(fragment) + 1) :
        SubSeq(stream, k + 1, k + Len(fragment) - 1) = SubSeq(fragment, 1, Len(fragment) - 1)

\* line 563: handler in wrapper.stream
IsSubstring(fragment, stream) ==
    \E k \in 0..(Len(stream) - Len(fragment)) :
        SubSeq(stream, k + 1, k + Len(fragment)) = fragment

\* lines 163-173, in insertion order
ws_handlers ==
    <<[fragment |-> <<"@", "b", "o", "o", "k", "T", "i", "c", "k", "e", "r">>,
       handler |-> "_handle_book_ticker"],
      [fragment |-> <<"@", "t", "i", "c", "k", "e", "r">>,
       handler |-> "_handle_ticker"],
      [fragment |-> <<"@", "k", "l", "i", "n", "e">>,
       handler |-> "_handle_kline"],
      [fragment |-> <<"@", "t", "r", "a", "d", "e">>,
       handler |-> "_handle_trade"],
      [fragment |-> <<"@", "a", "g", "g", "T", "r", "a", "d", "e">>,
       handler |-> "_handle_agg_trade"],
      [fragment |-> <<"@", "d", "e", "p", "t", "h", "@">>,
       handler |-> "_handle_book_diff_update"],
      [fragment |-> <<"@", "d", "e", "p", "t", "h", "5">>,
       handler |-> "_handle_book_partial_update"],
      [fragment |-> <<"@", "d", "e", "p", "t", "h", "1", "0">>,
       handler |-> "_handle_book_partial_update"],
      [fragment |-> <<"@", "d", "e", "p", "t", "h", "2", "0">>,
       handler |-> "_handle_book_partial_update"]>>

\* the lower-case symbol a stream name starts with
StreamSymbol(symbol) ==
    CASE symbol = "BTCUSDT" -> <<"b", "t", "c", "u", "s", "d", "t">>
      [] symbol = "ETHUSDT" -> <<"e", "t", "h", "u", "s", "d", "t">>

\* the name of the diff stream of a symbol: <symbol>@depth@100ms
DiffStream(symbol) == StreamSymbol(symbol) \o <<"@", "d", "e", "p", "t", "h", "@", "1", "0", "0", "m", "s">>

\* an inbound frame: the stream of its envelope, whether the envelope and the
\* typed payload decode, and the payload's fields the handlers read (s: symbol,
\* u: final update id, x: kline closed)
Frame(stream, wrapper_ok, payload_ok, s, u, x) ==
    [stream |-> stream, wrapper_ok |-> wrapper_ok, payload_ok |-> payload_ok,
     s |-> s, u |-> u, x |-> x]

\* the client's state a handler reads and writes, and whether it raised
HandlerState(ids, buffer, delivered, errors, raised) ==
    [instrument_ids |-> ids, book_buffer |-> buffer, data |-> delivered,
     log_errors |-> errors, raised |-> raised]

Raise(st) == [st EXCEPT !.raised = TRUE]

\* a resolution that caches the id of the nautilus symbol and, the first
\* time, returns one made of the venue's symbol
ResolveUncached(ids, symbol, at) ==
    LET nautilus_symbol == ParseAsNautilus(symbol, at)
    IN  IF nautilus_symbol \in DOMAIN ids
        THEN [instrument_ids |-> ids, instrument_id |-> ids[nautilus_symbol]]
        ELSE [instrument_ids |-> DictSet(ids, nautilus_symbol, InstrumentId(nautilus_symbol)),
              instrument_id |-> InstrumentId(symbol)]

\* lines 541-552: the cache after the call, and the id returned
GetCachedInstrumentId(ids, symbol, at) ==
    LET nautilus_symbol == ParseAsNautilus(symbol, at)
    IN  IF nautilus_symbol \in DOMAIN ids
        THEN [instrument_ids |-> ids, instrument_id |-> ids[nautilus_symbol]]
        ELSE [instrument_ids |-> DictSet(ids, nautilus_symbol, InstrumentId(nautilus_symbol)),
              instrument_id |-> InstrumentId(nautilus_symbol)]

\* a membership test that takes an empty buffer for none
HasPendingDeltas(buffer, instrument_id) ==
    instrument_id \in DOMAIN buffer /\ buffer[instrument_id] # << >>

\* lines 580-583: book_buffer is not None
HasBookBuffer(buffer, instrument_id) == instrument_id \in DOMAIN buffer

\* a handler that buffers every batch, creating the buffer when there is none
BufferBookDiffUpdate(st, frame, at) ==
    IF ~frame.payload_ok THEN Raise(st)
    ELSE LET got == GetCachedInstrumentId(st.instrument_ids, frame.s, at)
             book_deltas == Deltas(got.instrument_id, frame.u)
             pending == IF got.instrument_id \in DOMAIN st.book_buffer
                        THEN st.book_buffer[got.instrument_id] ELSE << >>
         IN  [st EXCEPT !.instrument_ids = got.instrument_ids,
                        !.book_buffer = DictSet(@, got.instrument_id,
                                                Append(pending, book_deltas))]

\* lines 573-586
HandleBookDiffUpdate(st, frame, at) ==
    IF ~frame.payload_ok THEN Raise(st)
    ELSE LET got == GetCachedInstrumentId(st.instrument_ids, frame.s, at)
             book_deltas == Deltas(got.instrument_id, frame.u)
         IN  IF HasBookBuffer(st.book_buffer, got.instrument_id)
             THEN [st EXCEPT !.instrument_ids = got.instrument_ids,
                             !.book_buffer[got.instrument_id] = Append(@, book_deltas)]
             ELSE [st EXCEPT !.instrument_ids = got.instrument_ids,
                             !.data = Append(@, Delivery("deltas", book_deltas, 0))]

\* lines 588-604 and 624-631: decode, resolve the instrument, _handle_data
HandleTick(st, frame, at, kind) ==
    IF ~frame.payload_ok THEN Raise(st)
    ELSE LET got == GetCachedInstrumentId(st.instrument_ids, frame.s, at)
         IN  [st EXCEPT !.instrument_ids = got.instrument_ids,
                        !.data = Append(@, Delivery(kind, Deltas(got.instrument_id, 0), 0))]

\* a kline handler that forwards every candle
ForwardKline(st, frame, at) == HandleTick(st, frame, at, "bar")

\* lines 606-616
HandleKline(st, frame, at) ==
    IF ~frame.payload_ok THEN Raise(st)
    ELSE IF ~frame.x THEN st
    ELSE LET got == GetCachedInstrumentId(st.instrument_ids, frame.s, at)
         IN  [st EXCEPT !.instrument_ids = got.instrument_ids,
                        !.data = Append(@, Delivery("bar", Deltas(got.instrument_id, 0), 0))]

\* line 564: self._ws_handlers[handler](raw)
CallHandler(handler, st, frame, at) ==
    CASE handler = "_handle_book_ticker" -> HandleTick(st, frame, at, "quote_tick")
      [] handler = "_handle_ticker" -> HandleTick(st, frame, at, "ticker")
      [] handler = "_handle_kline" -> HandleKline(st, frame, at)
      [] handler = "_handle_trade" -> Raise(st)           \* lines 621-622
      [] handler = "_handle_agg_trade" -> HandleTick(st, frame, at, "trade_tick")
      [] handler = "_handle_book_diff_update" -> HandleBookDiffUpdate(st, frame, at)
      [] handler = "_handle_book_partial_update" -> Raise(st)   \* lines 618-619

\* lines 560-571: the loop over the handlers from the k-th on, then the report
RECURSIVE RunHandlers(_, _, _, _, _)
RunHandlers(k, st, frame, at, handled) ==
    IF k > Len(ws_handlers)
    THEN IF handled THEN st
         ELSE [st EXCEPT !.log_errors = Append(@, "unrecognized websocket message type")]
    ELSE IF IsSubstring(ws_handlers[k].fragment, frame.stream)
    THEN LET after == CallHandler(ws_handlers[k].handler, st, frame, at)
         IN  IF after.raised
             THEN [after EXCEPT !.raised = FALSE,
                                !.log_errors = Append(@, "error handling websocket message")]
             ELSE RunHandlers(k + 1, after, frame, at, TRUE)
    ELSE RunHandlers(k + 1, st, frame, at, handled)

\* lines 556-571.  A frame whose envelope does not decode raises at line 559,
\* outside the try: the exception leaves the handler and the client's state
\* is as before.
HandleWsMessage(frame) ==
    LET st == HandlerState(instrument_ids, book_buffer, data, log_errors, FALSE)
        after == IF frame.wrapper_ok THEN RunHandlers(1, st, frame, account_type, FALSE)
                 ELSE st
    IN  /\ instrument_ids' = after.instrument_ids
        /\ book_buffer' = after.book_buffer
        /\ data' = after.data
        /\ log_errors' = after.log_errors
        /\ stream_seq' = IF frame.u > 0 THEN [stream_seq EXCEPT ![frame.s] = frame.u]
                         ELSE stream_seq
        /\ ws_raised' = IF frame.wrapper_ok THEN ws_raised ELSE ws_raised + 1
        /\ n_frames' = n_frames + 1
        /\ last_frame' = Some(frame)
        /\ UNCHANGED <<account_type, sub_calls, n_calls, ws_calls, http_calls>>
        /\ UNCHANGED <<use_agg_trade_ticks, barVars, reqVars, sessionVars>>

(***************************************************************************)
(* The venue.  It sends the diff frames of a symbol once a diff stream     *)
(* subscription for it has been issued, in increasing sequence.            *)
(***************************************************************************)
DiffStreamRequested(symbol) ==
    \E k \in 1..Len(ws_calls) :
        /\ ws_calls[k].op = "subscribe_diff_book_depth"
        /\ ws_calls[k].symbol = ParseAsNautilus(symbol, account_type)

\* the next diff frame of each of the symbols given
DiffFrames(symbols) ==
    {Frame(DiffStream(s), TRUE, TRUE, s, stream_seq[s] + 1, FALSE) :
        s \in {x \in symbols : DiffStreamRequested(x) /\ stream_seq[x] < MaxSeq}}

\* the sequence a snapshot may carry: behind, inside or ahead of the stream
SnapshotSequences == 0..MaxSeq

\* the steps of the coroutines started, and of the stream
BookSteps(symbols) ==
    \/ \E c \in CallIds : PartialDepthSubscribed(c)
    \/ \E c \in CallIds, sequence \in SnapshotSequences : SnapshotArrived(c, sequence)
    \/ \E c \in CallIds : DiffDepthSubscribed(c)
    \/ \E c \in CallIds : NetworkCallRaised(c)
    \/ \E frame \in DiffFrames(symbols) : HandleWsMessage(frame)

(***************************************************************************)
(* The order book synchronizer: subscriptions of one instrument with the   *)
(* default update speed, at the depths that take each path (diff stream,   *)
(* snapshot, rejected), and its diff stream.                               *)
(***************************************************************************)
SyncSymbols == {"BTCUSDT"}

SyncDepths == {None, Some(5), Some(7)}

SyncInstrumentIds ==
    {InstrumentId(ParseAsNautilus(s, account_type)) : s \in SyncSymbols}

Next ==
    \/ /\ n_calls < MaxCalls
       /\ \E id \in SyncInstrumentIds, d \in SyncDepths :
              SubscribeOrderBook(id, "L2_MBP", None, d)
    \/ BookSteps(SyncSymbols)

Spec == Init /\ [][Next]_vars

(***************************************************************************)
(* The validation of a book subscription: every book type, update speed    *)
(* and depth.                                                              *)
(***************************************************************************)
NextValidation ==
    \/ /\ n_calls < MaxValidationCalls
       /\ \E id \in SyncInstrumentIds, bt \in BookTypes, sp \in Speeds, d \in Depths :
              SubscribeOrderBook(id, bt, sp, d)
    \/ BookSteps(SyncSymbols)

SpecValidation == Init /\ [][NextValidation]_vars

(***************************************************************************)
(* Two instruments: book subscriptions of either, on the diff stream or    *)
(* with a snapshot, and the diff streams of both.                          *)
(***************************************************************************)
PairDepths == {None, Some(5)}

NextPair ==
    \/ /\ n_calls < MaxPairCalls
       /\ \E id \in InstrumentIds, d \in PairDepths :
              SubscribeOrderBook(id, "L2_MBP", None, d)
    \/ \E c \in CallIds : PartialDepthSubscribed(c)
    \/ \E c \in CallIds, sequence \in 0..MaxPairSeq : SnapshotArrived(c, sequence)
    \/ \E c \in CallIds : DiffDepthSubscribed(c)
    \/ \E frame \in {f \in DiffFrames(Symbols) : f.u <= MaxPairSeq} : HandleWsMessage(frame)

SpecPair == Init /\ [][NextPair]_vars

(***************************************************************************)
(* The dispatcher: frames of every stream the client has a handler for,    *)
(* of a stream it has none for, frames that do not decode, and a book      *)
(* subscription on the diff stream beside them.                            *)
(***************************************************************************)
\* the stream names of the venue, after the symbol
StreamSuffixes ==
    [bookTicker |-> <<"@", "b", "o", "o", "k", "T", "i", "c", "k", "e", "r">>,
     ticker |-> <<"@", "t", "i", "c", "k", "e", "r">>,
     kline |-> <<"@", "k", "l", "i", "n", "e", "_", "1", "m">>,
     trade |-> <<"@", "t", "r", "a", "d", "e">>,
     aggTrade |-> <<"@", "a", "g", "g", "T", "r", "a", "d", "e">>,
     depth |-> <<"@", "d", "e", "p", "t", "h", "@", "1", "0", "0", "m", "s">>,
     depth5 |-> <<"@", "d", "e", "p", "t", "h", "5", "@", "1", "0", "0", "m", "s">>,
     miniTicker |-> <<"@", "m", "i", "n", "i", "T", "i", "c", "k", "e", "r">>]

Stream(symbol, topic) == StreamSymbol(symbol) \o StreamSuffixes[topic]

\* the frames of a topic for a symbol: the payload decodes or does not; a
\* kline is closed or still open; a diff frame carries the next sequence
TopicFrames(symbol, topic) ==
    {Frame(Stream(symbol, topic), TRUE, payload_ok, symbol,
           IF topic = "depth" THEN stream_seq[symbol] + 1 ELSE 0, x) :
        payload_ok \in BOOLEAN, x \in IF topic = "kline" THEN BOOLEAN ELSE {FALSE}}

\* a frame whose envelope does not decode: it has no stream to read
UndecodableFrame == Frame(<< >>, FALSE, FALSE, "BTCUSDT", 0, FALSE)

InboundFrames ==
    {UndecodableFrame}
        \cup UNION {TopicFrames("BTCUSDT", topic) : topic \in DOMAIN StreamSuffixes}
        \cup UNION {TopicFrames("ETHUSDT", topic) : topic \in {"bookTicker", "kline"}}

NextFrames ==
    \/ /\ n_frames < MaxFrames
       /\ \E frame \in {f \in InboundFrames : f.u <= MaxSeq} : HandleWsMessage(frame)
    \/ /\ n_calls < MaxFrameCalls
       /\ \E instrument_id \in SyncInstrumentIds :
              SubscribeOrderBook(instrument_id, "L2_MBP", None, None)
    \/ \E c \in CallIds : DiffDepthSubscribed(c)

SpecFrames == Init /\ [][NextFrames]_vars

(***************************************************************************)
(* The book streams: frames of the diff stream and of the partial-depth    *)
(* streams of each depth, for two symbols, and a book subscription on the  *)
(* diff stream beside them.                                                *)
(***************************************************************************)
\* the names of the book streams of the venue, after the symbol
BookStreamSuffixes ==
    [depth |-> StreamSuffixes.depth,
     depth5 |-> StreamSuffixes.depth5,
     depth10 |-> <<"@", "d", "e", "p", "t", "h", "1", "0", "@", "1", "0", "0", "m", "s">>,
     depth20 |-> <<"@", "d", "e", "p", "t", "h", "2", "0", "@", "1", "0", "0", "m", "s">>]

PartialDepthTopics == {"depth5", "depth10", "depth20"}

BookStream(symbol, topic) == StreamSymbol(symbol) \o BookStreamSuffixes[topic]

\* the frames of a book stream for a symbol: the payload decodes or does not;
\* a diff frame carries the next sequence
BookFrames(symbol, topic) ==
    {Frame(BookStream(symbol, topic), TRUE, payload_ok, symbol,
           IF topic = "depth" THEN stream_seq[symbol] + 1 ELSE 0, FALSE) :
        payload_ok \in BOOLEAN}

RoutedFrames ==
    UNION {BookFrames(symbol, topic) :
               symbol \in Symbols, topic \in DOMAIN BookStreamSuffixes}

\* lines 562-564: the handlers the loop calls for a stream when none raises,
\* from the k-th on, in the order of the dict
RECURSIVE MatchingHandlers(_, _)
MatchingHandlers(k, stream) ==
    IF k > Len(ws_handlers) THEN << >>
    ELSE IF IsSubstring(ws_handlers[k].fragment, stream)
    THEN <<ws_handlers[k].handler>> \o MatchingHandlers(k + 1, stream)
    ELSE MatchingHandlers(k + 1, stream)

NextRouting ==
    \/ /\ n_frames < MaxRoutedFrames
       /\ \E frame \in {f \in RoutedFrames : f.u <= MaxSeq} : HandleWsMessage(frame)
    \/ /\ n_calls < MaxRoutedCalls
       /\ \E instrument_id \in SyncInstrumentIds :
              SubscribeOrderBook(instrument_id, "L2_MBP", None, None)
    \/ \E c \in CallIds : DiffDepthSubscribed(c)

SpecRouting == Init /\ [][NextRouting]_vars

(***************************************************************************)
(* The session: _connect, lines 183-188, _update_instruments, lines        *)
(* 190-201, and _disconnect, lines 203-210.                                *)
(***************************************************************************)
\* a task made of _update_instruments: where it stands ("created" until the
\* loop runs it for the first time), whether task.cancel() was called on it,
\* the load_all_async calls it has made, the pushes of the instruments it has
\* made, and the await CancelledError was thrown at, if it was
Task(pc, cancel_requested, loads, pushes, cancelled_at) ==
    [pc |-> pc, cancel_requested |-> cancel_requested, loads |-> loads,
     pushes |-> pushes, cancelled_at |-> cancelled_at]

\* self._instrument_provider.get_all(): the instruments the provider holds
ProviderInstruments == SyncInstrumentIds

\* lines 534-536: _handle_data, for each instrument of the provider
RECURSIVE SendAllInstruments(_, _)
SendAllInstruments(delivered, instruments) ==
    IF instruments = {} THEN delivered
    ELSE LET id == CHOOSE x \in instruments : TRUE
         IN  SendAllInstruments(Append(delivered, Delivery("instrument", Deltas(id, 0), 0)),
                                instruments \ {id})

\* lines 184-185: from the call to the await of initialize()
Connect ==
    /\ connect_calls' = Append(connect_calls, "await_initialize")
    /\ UNCHANGED <<configVars, bookVars, barVars, reqVars, frameVars, data, ws_calls,
                   http_calls, log_errors, disconnect_calls, tasks, update_instruments_task>>

\* a connect that creates the task and pushes no instrument
InitializedWithoutPush(c) ==
    /\ connect_calls[c] = "await_initialize"
    /\ connect_calls' = [connect_calls EXCEPT ![c] = "done"]
    /\ tasks' = Append(tasks, Task("created", FALSE, 0, 0, ""))
    /\ update_instruments_task' = Some(Len(tasks) + 1)
    /\ UNCHANGED <<configVars, bookVars, barVars, reqVars, frameVars, data, ws_calls,
                   http_calls, log_errors, disconnect_calls>>

\* lines 187-188: initialize() returned; the instruments are pushed and the
\* task is created, whatever self._update_instruments_task held
Initialized(c) ==
    /\ connect_calls[c] = "await_initialize"
    /\ connect_calls' = [connect_calls EXCEPT ![c] = "done"]
    /\ data' = SendAllInstruments(data, ProviderInstruments)
    /\ tasks' = Append(tasks, Task("created", FALSE, 0, 0, ""))
    /\ update_instruments_task' = Some(Len(tasks) + 1)
    /\ UNCHANGED <<configVars, bookVars, barVars, reqVars, frameVars, ws_calls,
                   http_calls, log_errors, disconnect_calls>>

\* line 185: initialize() raised, which ends the coroutine
InitializeRaised(c) ==
    /\ connect_calls[c] = "await_initialize"
    /\ connect_calls' = [connect_calls EXCEPT ![c] = "raised"]
    /\ UNCHANGED <<configVars, bookVars, barVars, reqVars, frameVars, data, ws_calls,
                   http_calls, log_errors, disconnect_calls, tasks, update_instruments_task>>

\* a test that takes a finished task for one that can still run
IsTask(task) == TRUE

\* the task can still run
IsPending(task) == task.pc \in {"created", "sleeping", "loading"}

\* lines 203-210: task.cancel() asks a task that has not finished to stop,
\* and is without effect on one that has; then self._ws_client.disconnect()
\* is awaited
Disconnect ==
    /\ IF update_instruments_task # None
       THEN LET t == ValueOf(update_instruments_task)
            IN  /\ tasks' = IF IsPending(tasks[t])
                            THEN [tasks EXCEPT ![t].cancel_requested = TRUE]
                            ELSE tasks
                /\ update_instruments_task' = None
       ELSE UNCHANGED <<tasks, update_instruments_task>>
    /\ ws_calls' = Append(ws_calls, WsCall("disconnect", "", 0, 0, NoInterval, 0))
    /\ disconnect_calls' = Append(disconnect_calls, "await_ws_disconnect")
    /\ UNCHANGED <<configVars, bookVars, barVars, reqVars, frameVars, data,
                   http_calls, log_errors, connect_calls>>

\* line 210: self._ws_client.disconnect() returned, and so does _disconnect
Disconnected(c) ==
    /\ disconnect_calls[c] = "await_ws_disconnect"
    /\ disconnect_calls' = [disconnect_calls EXCEPT ![c] = "done"]
    /\ UNCHANGED <<configVars, bookVars, barVars, reqVars, frameVars, data, ws_calls,
                   http_calls, log_errors, connect_calls, tasks, update_instruments_task>>

\* lines 191-197: the task runs for the first time, up to the sleep
TaskStarts(t) ==
    /\ tasks[t].pc = "created"
    /\ ~tasks[t].cancel_requested
    /\ tasks' = [tasks EXCEPT ![t].pc = "sleeping"]
    /\ UNCHANGED <<configVars, bookVars, barVars, reqVars, frameVars, data, ws_calls,
                   http_calls, log_errors, connect_calls, disconnect_calls, update_instruments_task>>

\* a sleep that ends whether the task was asked to stop or not
SleepElapsedRegardless(t) ==
    /\ tasks[t].pc = "sleeping"
    /\ tasks' = [tasks EXCEPT ![t].pc = "loading", ![t].loads = @ + 1]
    /\ UNCHANGED <<configVars, bookVars, barVars, reqVars, frameVars, data, ws_calls,
                   http_calls, log_errors, connect_calls, disconnect_calls, update_instruments_task>>

\* lines 197-198: the sleep is over, load_all_async() is called
SleepElapsed(t) ==
    /\ tasks[t].pc = "sleeping"
    /\ ~tasks[t].cancel_requested
    /\ tasks' = [tasks EXCEPT ![t].pc = "loading", ![t].loads = @ + 1]
    /\ UNCHANGED <<configVars, bookVars, barVars, reqVars, frameVars, data, ws_calls,
                   http_calls, log_errors, connect_calls, disconnect_calls, update_instruments_task>>

\* lines 198-199 and 193-197: load_all_async() returned; the instruments are
\* pushed and the loop sleeps again
ReloadDone(t) ==
    /\ tasks[t].pc = "loading"
    /\ ~tasks[t].cancel_requested
    /\ data' = SendAllInstruments(data, ProviderInstruments)
    /\ tasks' = [tasks EXCEPT ![t].pc = "sleeping", ![t].pushes = @ + 1]
    /\ UNCHANGED <<configVars, bookVars, barVars, reqVars, frameVars, ws_calls,
                   http_calls, log_errors, connect_calls, disconnect_calls, update_instruments_task>>

\* line 198: load_all_async() raised; the try catches CancelledError alone,
\* so the task ends
ReloadRaised(t) ==
    /\ tasks[t].pc = "loading"
    /\ ~tasks[t].cancel_requested
    /\ tasks' = [tasks EXCEPT ![t].pc = "failed"]
    /\ UNCHANGED <<configVars, bookVars, barVars, reqVars, frameVars, data, ws_calls,
                   http_calls, log_errors, connect_calls, disconnect_calls, update_instruments_task>>

\* lines 197-201: CancelledError is thrown at the await the task stands at,
\* the sleep or load_all_async(), and is caught by the except (a debug line
\* is logged); a task cancelled before its first run never runs
TaskCancelled(t) ==
    /\ IsPending(tasks[t])
    /\ tasks[t].cancel_requested
    /\ tasks' = [tasks EXCEPT ![t].pc = "cancelled", ![t].cancelled_at = tasks[t].pc]
    /\ UNCHANGED <<configVars, bookVars, barVars, reqVars, frameVars, data, ws_calls,
                   http_calls, log_errors, connect_calls, disconnect_calls, update_instruments_task>>

\* the load_all_async calls of all the tasks
RECURSIVE Reloads(_)
Reloads(t) == IF t = 0 THEN 0 ELSE tasks[t].loads + Reloads(t - 1)

\* the _disconnect invocations
Disconnects == Cardinality({k \in DOMAIN ws_calls : ws_calls[k].op = "disconnect"})

NextSession ==
    \/ Len(connect_calls) < MaxConnects /\ Connect
    \/ \E c \in DOMAIN connect_calls : Initialized(c)
    \/ \E c \in DOMAIN connect_calls : InitializeRaised(c)
    \/ Disconnects < MaxDisconnects /\ Disconnect
    \/ \E c \in DOMAIN disconnect_calls : Disconnected(c)
    \/ \E t \in DOMAIN tasks : TaskStarts(t)
    \/ \E t \in DOMAIN tasks : Reloads(Len(tasks)) < MaxReloads /\ SleepElapsed(t)
    \/ \E t \in DOMAIN tasks : ReloadDone(t)
    \/ \E t \in DOMAIN tasks : ReloadRaised(t)
    \/ \E t \in DOMAIN tasks : TaskCancelled(t)

SpecSession == Init /\ [][NextSession]_vars

(***************************************************************************)
(* Bar types.                                                              *)
(***************************************************************************)
BarType(instrument_id, step, aggregation, price_type, aggregation_source) ==
    [instrument_id |-> instrument_id, step |-> step, aggregation |-> aggregation,
     price_type |-> price_type, aggregation_source |-> aggregation_source]

\* BarSpecification.is_time_aggregated (model/data)
IsTimeAggregated(aggregation) ==
    aggregation \in {"MILLISECOND", "SECOND", "MINUTE", "HOUR", "DAY", "WEEK", "MONTH"}

\* BinanceEnumParser.parse_internal_bar_agg (enums.py)
ParseInternalBarAgg(aggregation) ==
    CASE aggregation = "SECOND" -> "s"
      [] aggregation = "MINUTE" -> "m"
      [] aggregation = "HOUR" -> "h"
      [] aggregation = "DAY" -> "d"
      [] aggregation = "WEEK" -> "w"
      [] aggregation = "MONTH" -> "M"

\* BinanceKlineInterval (enums.py): the intervals the venue has, the one-second
\* interval of the spot market among them
KlineIntervals ==
    {<<1, "s">>, <<1, "m">>, <<3, "m">>, <<5, "m">>, <<15, "m">>, <<30, "m">>,
     <<1, "h">>, <<2, "h">>, <<4, "h">>, <<6, "h">>, <<8, "h">>, <<12, "h">>,
     <<1, "d">>, <<3, "d">>, <<1, "w">>, <<1, "M">>}

\* the bar types drawn: one the venue has, one second bars, an interval the
\* venue has not, tick bars, a price type other than LAST, bars aggregated
\* internally
BarTypes ==
    LET id == InstrumentId(ParseAsNautilus("BTCUSDT", account_type))
    IN  {BarType(id, 1, "MINUTE", "LAST", "EXTERNAL"),
         BarType(id, 1, "SECOND", "LAST", "EXTERNAL"),
         BarType(id, 7, "MINUTE", "LAST", "EXTERNAL"),
         BarType(id, 100, "TICK", "LAST", "EXTERNAL"),
         BarType(id, 1, "MINUTE", "BID", "EXTERNAL"),
         BarType(id, 1, "MINUTE", "LAST", "INTERNAL")}

(***************************************************************************)
(* _subscribe_bars, lines 339-366.                                         *)
(***************************************************************************)
BarCall(pc, bar_type) == [pc |-> pc, bar_type |-> bar_type]

\* lines 349-353: the errors logged once the futures check has run
AfterSecondIntervalCheck(errors, at, resolution) ==
    IF IsFutures(at) /\ resolution = "s"
    THEN Append(errors, "second interval bars are not aggregated by Binance Futures")
    ELSE errors

\* lines 340-365: from the call to the await of subscribe_bars, or its return
SubscribeBars(bar_type) ==
    LET c == n_bar_calls + 1
    IN  /\ n_bar_calls' = c
        /\ UNCHANGED <<configVars, bookVars, reqVars, sessionVars, frameVars, data, http_calls, subscriptions_bars>>
        /\ IF bar_type.aggregation_source # "EXTERNAL"
           THEN \* line 340: PyCondition.true raises
                /\ bar_calls' = Append(bar_calls, BarCall("raised", bar_type))
                /\ UNCHANGED <<log_errors, ws_calls>>
           ELSE IF ~IsTimeAggregated(bar_type.aggregation)
           THEN \* lines 342-346
                /\ log_errors' = Append(log_errors, "only time bars are aggregated by Binance")
                /\ bar_calls' = Append(bar_calls, BarCall("rejected", bar_type))
                /\ UNCHANGED ws_calls
           ELSE LET resolution == ParseInternalBarAgg(bar_type.aggregation)
                    errors == AfterSecondIntervalCheck(log_errors, account_type, resolution)
                IN  IF <<bar_type.step, resolution>> \notin KlineIntervals
                    THEN \* lines 354-360
                         /\ log_errors' = Append(errors, "bar interval not supported by Binance")
                         /\ bar_calls' = Append(bar_calls, BarCall("rejected", bar_type))
                         /\ UNCHANGED ws_calls
                    ELSE \* lines 362-365
                         /\ log_errors' = errors
                         /\ ws_calls' = Append(ws_calls,
                                WsCall("subscribe_bars", SymbolValue(bar_type.instrument_id),
                                       0, 0, <<bar_type.step, resolution>>, c))
                         /\ bar_calls' = Append(bar_calls, BarCall("await_subscribe_bars", bar_type))

\* line 366: subscribe_bars returned
BarsSubscribed(c) ==
    /\ bar_calls[c].pc = "await_subscribe_bars"
    /\ subscriptions_bars' = subscriptions_bars \cup {bar_calls[c].bar_type}
    /\ bar_calls' = [bar_calls EXCEPT ![c].pc = "done"]
    /\ UNCHANGED <<configVars, bookVars, reqVars, sessionVars, frameVars, data, ws_calls, http_calls,
                   log_errors, n_bar_calls>>

\* line 362: subscribe_bars raised, which ends the coroutine
SubscribeBarsRaised(c) ==
    /\ bar_calls[c].pc = "await_subscribe_bars"
    /\ bar_calls' = [bar_calls EXCEPT ![c].pc = "raised"]
    /\ UNCHANGED <<configVars, bookVars, reqVars, sessionVars, frameVars, data, ws_calls, http_calls,
                   log_errors, n_bar_calls, subscriptions_bars>>

NextBars ==
    \/ /\ n_bar_calls < MaxBarCalls
       /\ \E bar_type \in BarTypes : SubscribeBars(bar_type)
    \/ \E c \in 1..Len(bar_calls) : BarsSubscribed(c)
    \/ \E c \in 1..Len(bar_calls) : SubscribeBarsRaised(c)

SpecBars == Init /\ [][NextBars]_vars

(***************************************************************************)
(* _request_trade_ticks, lines 427-466, and _request_bars, lines 468-532.  *)
(***************************************************************************)
\* lines 435-436 and 476-477: the ceiling of the result count
MaxLimit == 1000

\* lines 435-436 and 476-477
ClampLimit(limit) == IF limit = 0 \/ limit > MaxLimit THEN MaxLimit ELSE limit

\* lines 455, 457, 516, 520: a timestamp, in whole seconds, in milliseconds
SecsToMillis(secs) == secs * 1000

\* lines 452-457 and 514-520
TimeMs(timestamp) ==
    IF timestamp = None THEN None ELSE Some(SecsToMillis(ValueOf(timestamp)))

\* limit arguments: negative, absent (0), in range, the ceiling, above it
Limits == {-1, 0, 500, 1000, 1001}

\* start and end arguments: absent, or both given
TimeRanges == {<<None, None>>, <<Some(1), Some(2)>>}

\* a request coroutine: the method, its arguments (bar_type is the instrument
\* id's for trade ticks), limit after lines 435 and 476, where it stands, and
\* the list the venue request returned once it has (the items are numbered
\* in the order the venue gave them)
ReqCall(pc, method, instrument_id, bar_type, arg_limit, limit, correlation_id) ==
    [pc |-> pc, method |-> method, instrument_id |-> instrument_id,
     bar_type |-> bar_type, arg_limit |-> arg_limit, limit |-> limit,
     correlation_id |-> correlation_id, returned |-> << >>]

NoBarType(instrument_id) == BarType(instrument_id, 0, "", "", "")

\* what _handle_trade_ticks or _handle_bars was given: the items are the
\* positions they had in the venue's response
Response(method, correlation_id, items, partial) ==
    [method |-> method, correlation_id |-> correlation_id, items |-> items,
     partial |-> partial]

\* lines 435-464: from the call to the await of the venue request
RequestTradeTicks(instrument_id, limit, correlation_id, start, end) ==
    LET c == n_requests + 1
        clamped == ClampLimit(limit)
    IN  /\ n_requests' = c
        /\ req_calls' = Append(req_calls,
               ReqCall("await_trade_ticks", "_request_trade_ticks", instrument_id,
                       NoBarType(instrument_id), limit, clamped, correlation_id))
        /\ http_calls' = Append(http_calls,
               IF ~use_agg_trade_ticks
               THEN \* lines 445-449
                    HttpCall("request_trade_ticks", instrument_id, clamped, None, None, c)
               ELSE \* lines 452-464
                    HttpCall("request_agg_trade_ticks", instrument_id, clamped,
                             TimeMs(start), TimeMs(end), c))
        /\ UNCHANGED <<configVars, bookVars, barVars, sessionVars, frameVars, data, ws_calls, log_errors, responses>>

\* line 466: the venue answered with n ticks
TradeTicksArrived(c, n) ==
    /\ req_calls[c].pc = "await_trade_ticks"
    /\ responses' = Append(responses,
           Response("_handle_trade_ticks", req_calls[c].correlation_id,
                    [k \in 1..n |-> k], None))
    /\ req_calls' = [req_calls EXCEPT ![c].pc = "done",
                                      ![c].returned = [k \in 1..n |-> k]]
    /\ UNCHANGED <<configVars, bookVars, barVars, sessionVars, frameVars, data, ws_calls, http_calls,
                   log_errors, n_requests>>

\* lines 492-497: the errors logged once the second interval check has run
AfterSecondIntervalCheckOfRequest(errors, at, resolution) ==
    IF ~IsSpotOrMargin(at) /\ resolution = "s"
    THEN Append(errors, "second interval bars are not aggregated by Binance Futures")
    ELSE errors

\* lines 476-529: from the call to the await of the venue request, or its return
RequestBars(bar_type, limit, correlation_id, start, end) ==
    LET c == n_requests + 1
        clamped == ClampLimit(limit)
        call(pc) == ReqCall(pc, "_request_bars", bar_type.instrument_id, bar_type,
                            limit, clamped, correlation_id)
    IN  /\ n_requests' = c
        /\ UNCHANGED <<configVars, bookVars, barVars, sessionVars, frameVars, data, ws_calls, responses>>
        /\ IF bar_type.aggregation_source # "EXTERNAL"
           THEN \* lines 479-484
                /\ log_errors' = Append(log_errors, "only historical bars with EXTERNAL aggregation")
                /\ req_calls' = Append(req_calls, call("rejected"))
                /\ UNCHANGED http_calls
           ELSE IF ~IsTimeAggregated(bar_type.aggregation)
           THEN \* lines 486-490
                /\ log_errors' = Append(log_errors, "only time bars are aggregated by Binance")
                /\ req_calls' = Append(req_calls, call("rejected"))
                /\ UNCHANGED http_calls
           ELSE LET resolution == ParseInternalBarAgg(bar_type.aggregation)
                    errors == AfterSecondIntervalCheckOfRequest(log_errors, account_type, resolution)
                IN  IF <<bar_type.step, resolution>> \notin KlineIntervals
                    THEN \* lines 498-505
                         /\ log_errors' = Append(errors, "cannot create Binance Kline interval")
                         /\ req_calls' = Append(req_calls, call("rejected"))
                         /\ UNCHANGED http_calls
                    ELSE IF bar_type.price_type # "LAST"
                    THEN \* lines 507-512
                         /\ log_errors' = Append(errors, "only historical bars for LAST price type")
                         /\ req_calls' = Append(req_calls, call("rejected"))
                         /\ UNCHANGED http_calls
                    ELSE \* lines 514-529
                         /\ log_errors' = errors
                         /\ http_calls' = Append(http_calls,
                                HttpCall("request_binance_bars", bar_type.instrument_id,
                                         clamped, TimeMs(start), TimeMs(end), c))
                         /\ req_calls' = Append(req_calls, call("await_bars"))

\* a pop that takes the first bar of the list
PopFirst(bars) == [item |-> bars[1], rest |-> SubSeq(bars, 2, Len(bars))]

\* line 531: list.pop() of a list that is not empty: the last item, and the
\* list as it is left
Pop(bars) == [item |-> bars[Len(bars)], rest |-> SubSeq(bars, 1, Len(bars) - 1)]

\* lines 531-532: the venue answered with n bars; bars.pop() of an empty list
\* raises IndexError, which ends the coroutine
BarsArrived(c, n) ==
    /\ req_calls[c].pc = "await_bars"
    /\ LET bars == [k \in 1..n |-> k]
       IN  IF bars = << >>
           THEN /\ req_calls' = [req_calls EXCEPT ![c].pc = "pop_raised"]
                /\ UNCHANGED responses
           ELSE /\ responses' = Append(responses,
                       Response("_handle_bars", req_calls[c].correlation_id,
                                Pop(bars).rest, Some(Pop(bars).item)))
                /\ req_calls' = [req_calls EXCEPT ![c].pc = "done",
                                                  ![c].returned = bars]
    /\ UNCHANGED <<configVars, bookVars, barVars, sessionVars, frameVars, data, ws_calls, http_calls,
                   log_errors, n_requests>>

\* lines 445, 458, 522: the venue request raised, which ends the coroutine
RequestRaised(c) ==
    /\ req_calls[c].pc \in {"await_trade_ticks", "await_bars"}
    /\ req_calls' = [req_calls EXCEPT ![c].pc = "raised"]
    /\ UNCHANGED <<configVars, bookVars, barVars, sessionVars, frameVars, data, ws_calls, http_calls,
                   log_errors, n_requests, responses>>

\* lines 398-413: self._instrument_provider.find gives the instrument or None
RequestInstrument(instrument_id, correlation_id, found) ==
    LET c == n_requests + 1
        call(pc) == ReqCall(pc, "_request_instrument", instrument_id,
                            NoBarType(instrument_id), 0, 0, correlation_id)
    IN  /\ n_requests' = c
        /\ UNCHANGED <<configVars, bookVars, barVars, sessionVars, frameVars, data, ws_calls, http_calls>>
        /\ IF ~found
           THEN \* lines 400-402
                /\ log_errors' = Append(log_errors, "cannot find instrument")
                /\ req_calls' = Append(req_calls, call("rejected"))
                /\ UNCHANGED responses
           ELSE \* lines 404-413: the response is the list of the one instrument
                /\ responses' = Append(responses,
                       Response("_handle_data_response", correlation_id, <<1>>, None))
                /\ req_calls' = Append(req_calls, [call("done") EXCEPT !.returned = <<1>>])
                /\ UNCHANGED log_errors

\* lines 415-425
RequestQuoteTicks(instrument_id, limit, correlation_id, start, end) ==
    /\ n_requests' = n_requests + 1
    /\ log_errors' = Append(log_errors, "cannot request historical quote ticks")
    /\ req_calls' = Append(req_calls,
           ReqCall("rejected", "_request_quote_ticks", instrument_id,
                   NoBarType(instrument_id), limit, limit, correlation_id))
    /\ UNCHANGED <<configVars, bookVars, barVars, sessionVars, frameVars, data, ws_calls, http_calls, responses>>

\* the correlation id of a request is fresh: its invocation number stands for it
NextRequests ==
    \/ /\ n_requests < MaxRequests
       /\ \E limit \in Limits, range \in TimeRanges :
              RequestTradeTicks(InstrumentId(ParseAsNautilus("BTCUSDT", account_type)),
                                limit, n_requests + 1, range[1], range[2])
    \/ /\ n_requests < MaxRequests
       /\ \E bar_type \in BarTypes, limit \in Limits, range \in TimeRanges :
              RequestBars(bar_type, limit, n_requests + 1, range[1], range[2])
    \/ /\ n_requests < MaxRequests
       /\ \E found \in BOOLEAN :
              RequestInstrument(InstrumentId(ParseAsNautilus("BTCUSDT", account_type)),
                                n_requests + 1, found)
    \/ /\ n_requests < MaxRequests
       /\ \E limit \in Limits, range \in TimeRanges :
              RequestQuoteTicks(InstrumentId(ParseAsNautilus("BTCUSDT", account_type)),
                                limit, n_requests + 1, range[1], range[2])
    \/ \E c \in 1..Len(req_calls), n \in 0..MaxItems : TradeTicksArrived(c, n)
    \/ \E c \in 1..Len(req_calls), n \in 0..MaxItems : BarsArrived(c, n)
    \/ \E c \in 1..Len(req_calls) : RequestRaised(c)

InitRequests == InitConfig(AccountTypes, BOOLEAN)

SpecRequests == InitRequests /\ [][NextRequests]_vars

(***************************************************************************)
(* The life of a session: connecting and disconnecting while a book        *)
(* subscription, a bar request and the refresh task are in flight.  The    *)
(* subscriptions and requests are made while the session is connected, and *)
(* the venue sends no frame on a transport that was closed and not opened  *)
(* again.                                                                  *)
(***************************************************************************)
\* a _connect has completed and no _disconnect has been called since
Connected == update_instruments_task # None

TransportOpen == Disconnects = 0 \/ Connected

NextLifecycle ==
    \/ Len(connect_calls) < MaxLifeConnects /\ Connect
    \/ \E c \in DOMAIN connect_calls : Initialized(c)
    \/ Disconnects < MaxLifeDisconnects /\ Disconnect
    \/ \E c \in DOMAIN disconnect_calls : Disconnected(c)
    \/ \E t \in DOMAIN tasks : TaskStarts(t)
    \/ \E t \in DOMAIN tasks : Reloads(Len(tasks)) < MaxLifeReloads /\ SleepElapsed(t)
    \/ \E t \in DOMAIN tasks : ReloadDone(t)
    \/ \E t \in DOMAIN tasks : TaskCancelled(t)
    \/ /\ n_calls < MaxLifeCalls
       /\ Connected
       /\ \E id \in SyncInstrumentIds, d \in {None, Some(5)} :
              SubscribeOrderBook(id, "L2_MBP", None, d)
    \/ \E c \in CallIds : PartialDepthSubscribed(c)
    \/ \E c \in CallIds, sequence \in SnapshotSequences : SnapshotArrived(c, sequence)
    \/ \E c \in CallIds : DiffDepthSubscribed(c)
    \/ /\ TransportOpen
       /\ \E frame \in DiffFrames(SyncSymbols) : HandleWsMessage(frame)
    \/ /\ n_requests < MaxLifeRequests
       /\ Connected
       /\ \E id \in SyncInstrumentIds :
              RequestBars(BarType(id, 1, "MINUTE", "LAST", "EXTERNAL"), 500,
                          n_requests + 1, None, None)
    \/ \E c \in DOMAIN req_calls, n \in 0..MaxItems : BarsArrived(c, n)

SpecLifecycle == Init /\ [][NextLifecycle]_vars

(***************************************************************************)
(* The order book synchronizer: what is read off a state.                  *)
(***************************************************************************)
\* the instrument id the diff frames of a symbol resolve to
SymbolId(symbol) == InstrumentId(ParseAsNautilus(symbol, account_type))

\* the depth a call was given, absent read as zero
ArgDepth(c) ==
    IF sub_calls[c].arg_depth = None THEN 0 ELSE sub_calls[c].arg_depth[1]

\* the call got past the checks of the book type and of the update speed
PastValidation(c) ==
    sub_calls[c].pc \notin {"idle", "rejected_book_type", "rejected_speed"}

\* the calls a coroutine made on the websocket client and on the HTTP API,
\* and what it gave the consumer
WsBy(c, op) == {k \in DOMAIN ws_calls : ws_calls[k].call = c /\ ws_calls[k].op = op}

SnapshotRequestsBy(c) ==
    {k \in DOMAIN http_calls : /\ http_calls[k].call = c
                               /\ http_calls[k].op = "request_order_book_snapshot"}

DeliveredBy(c) == {k \in DOMAIN data : data[k].call = c}

\* a delta of the stream that reached the consumer through the buffer
IsFlushedDelta(k) == data[k].kind = "deltas" /\ data[k].call # 0

\* a diff frame of the symbol is handled in this step
DiffFrameHandled(symbol) == stream_seq'[symbol] # stream_seq[symbol]

C1_AppendedWhileBuffering ==
    \A s \in Symbols :
        (DiffFrameHandled(s) /\ SymbolId(s) \in DOMAIN book_buffer) =>
            /\ SymbolId(s) \in DOMAIN book_buffer'
            /\ book_buffer'[SymbolId(s)] =
                   Append(book_buffer[SymbolId(s)], Deltas(SymbolId(s), stream_seq'[s]))
            /\ data' = data

\* a delta out of the buffer is delivered by a _subscribe_order_book call, and
\* by a call of depth 5, 10 or 20 only behind that call's own snapshot, with
\* nothing of another origin in between
C1_FlushedBehindOwnSnapshot ==
    \A k \in DOMAIN data :
        (IsFlushedDelta(k) /\ ArgDepth(data[k].call) \in {5, 10, 20}) =>
            \E j \in 1..(k - 1) : /\ data[j].kind = "snapshot"
                                  /\ data[j].call = data[k].call
                                  /\ \A m \in j..k : data[m].call = data[k].call

IsLastSnapshotBefore(j, k) ==
    /\ j < k
    /\ data[j].kind = "snapshot"
    /\ data[j].instrument_id = data[k].instrument_id
    /\ \A m \in (j + 1)..(k - 1) :
           ~(data[m].kind = "snapshot" /\ data[m].instrument_id = data[k].instrument_id)

\* C2 as stated: no delta delivered after the snapshot has a sequence less
\* than or equal to the delivered snapshot's, and no delta is delivered twice.
C2_SequenceGapFree ==
    \A k \in DOMAIN data :
        data[k].kind = "deltas" =>
            /\ \A j \in DOMAIN data :
                   IsLastSnapshotBefore(j, k) => data[k].sequence > data[j].sequence
            /\ \A j \in 1..(k - 1) :
                   (data[j].kind = "deltas" /\ data[j].instrument_id = data[k].instrument_id)
                       => data[j].sequence # data[k].sequence

(***************************************************************************)
(* C3.  Snapshot reconciliation.                                           *)
(***************************************************************************)
\* the call's snapshot arrives in this step
SnapshotArrives(c) ==
    sub_calls[c].pc = "await_snapshot" /\ sub_calls'[c].pc = "done"

\* the batches of a buffer whose sequence is greater than the one given
LaterThan(buffer, sequence) ==
    LET IsLater(deltas) == deltas.sequence > sequence
    IN  SelectSeq(buffer, IsLater)

C3_Step ==
    \A c \in CallIds :
        SnapshotArrives(c) =>
            LET id == sub_calls[c].instrument_id
                pending == IF id \in DOMAIN book_buffer THEN book_buffer[id] ELSE << >>
                n == Len(data)
            IN  /\ Len(data') > n
                /\ SubSeq(data', 1, n) = data
                /\ data'[n + 1].kind = "snapshot"
                /\ data'[n + 1].instrument_id = id
                /\ LET kept == LaterThan(pending, data'[n + 1].sequence)
                   IN  /\ Len(data') = n + 1 + Len(kept)
                       /\ \A m \in 1..Len(kept) :
                              /\ data'[n + 1 + m].kind = "deltas"
                              /\ data'[n + 1 + m].instrument_id = id
                              /\ data'[n + 1 + m].sequence = kept[m].sequence
                /\ id \notin DOMAIN book_buffer'

\* C3: when the snapshot response arrives, the consumer is given the snapshot,
\* then exactly the buffered batches whose sequence is greater than the
\* snapshot's, in arrival order; the others are discarded; the instrument has
\* no pending buffer afterwards.
C3_SnapshotReconciliation == [][C3_Step]_vars

\* C3 witness: a snapshot of sequence 1 was delivered with the delta of
\* sequence 2 flushed behind it and the delta of sequence 1 discarded
C3_Witness ==
    \E k \in DOMAIN data :
        /\ data[k].kind = "snapshot" /\ data[k].sequence = 1
        /\ k + 1 \in DOMAIN data
        /\ data[k + 1].kind = "deltas" /\ data[k + 1].sequence = 2
        /\ data[k + 1].call = data[k].call
        /\ \A m \in DOMAIN data : ~(data[m].kind = "deltas" /\ data[m].sequence = 1)

(***************************************************************************)
(* C4.  Per-instrument delivery order.                                     *)
(***************************************************************************)
\* the deltas delivered for an instrument are strictly increasing in sequence
DeltasIncreasing ==
    \A j, k \in DOMAIN data :
        (/\ j < k
         /\ data[j].kind = "deltas" /\ data[k].kind = "deltas"
         /\ data[j].instrument_id = data[k].instrument_id)
            => data[j].sequence < data[k].sequence

\* a delta received, beyond every snapshot delivered, is delivered or pending
NoDeltaLost ==
    \A s \in Symbols : \A n \in 1..stream_seq[s] :
        (\A j \in DOMAIN data :
             (data[j].kind = "snapshot" /\ data[j].instrument_id = SymbolId(s))
                 => n > data[j].sequence)
        => \/ \E k \in DOMAIN data : /\ data[k].kind = "deltas"
                                     /\ data[k].instrument_id = SymbolId(s)
                                     /\ data[k].sequence = n
           \/ /\ SymbolId(s) \in DOMAIN book_buffer
              /\ \E m \in DOMAIN book_buffer[SymbolId(s)] :
                     book_buffer[SymbolId(s)][m].sequence = n

\* C4 as stated: the deltas delivered are strictly increasing in sequence and
\* every delta received with a sequence greater than the snapshot's is
\* delivered, none is lost.
C4_OrderedAndGapFree == DeltasIncreasing /\ NoDeltaLost

(***************************************************************************)
(* C5.  Synced: immediate delivery.                                        *)
(***************************************************************************)
C5_Step ==
    \A s \in Symbols :
        (DiffFrameHandled(s) /\ SymbolId(s) \notin DOMAIN book_buffer) =>
            /\ data' = Append(data, [kind |-> "deltas", instrument_id |-> SymbolId(s),
                                     sequence |-> stream_seq'[s], call |-> 0])
            /\ book_buffer' = book_buffer

\* C5: while an instrument has no pending buffer, a book delta handled by
\* _handle_book_diff_update is delivered to the consumer in the same step
\* and is not appended to a buffer.
C5_SyncedDeliversImmediately == [][C5_Step]_vars

\* C5 witness: the handler itself delivered a delta
C5_Witness ==
    \E k \in DOMAIN data : data[k].kind = "deltas" /\ data[k].call = 0

(***************************************************************************)
(* C6.  Stream selection on book subscribe.                                *)
(***************************************************************************)
\* C6 as stated: a depth unset, zero or outside {5, 10, 20} subscribes to the
\* diff stream only, requests no snapshot and leaves the instrument Synced;
\* a depth in {5, 10, 20} subscribes to the partial-depth stream and fetches
\* a snapshot.
C6_StreamSelection ==
    \A c \in CallIds :
        PastValidation(c) =>
            IF ArgDepth(c) \notin {5, 10, 20}
            THEN /\ WsBy(c, "subscribe_diff_book_depth") # {}
                 /\ WsBy(c, "subscribe_partial_book_depth") = {}
                 /\ SnapshotRequestsBy(c) = {}
                 /\ sub_calls[c].pc = "await_subscribe_diff"
                        => sub_calls[c].instrument_id \notin DOMAIN book_buffer
            ELSE /\ WsBy(c, "subscribe_partial_book_depth") # {}
                 /\ WsBy(c, "subscribe_diff_book_depth") = {}
                 /\ sub_calls[c].pc \in {"await_snapshot", "done"}
                        => SnapshotRequestsBy(c) # {}

\* the streams and the snapshot request of each call, by the depth it was given
C6_StreamsByDepth ==
    \A c \in CallIds :
        PastValidation(c) =>
            IF ArgDepth(c) = 0 \/ ArgDepth(c) > 20
            THEN /\ Cardinality(WsBy(c, "subscribe_diff_book_depth")) = 1
                 /\ WsBy(c, "subscribe_partial_book_depth") = {}
                 /\ SnapshotRequestsBy(c) = {}
                 /\ \A k \in DeliveredBy(c) : data[k].kind = "deltas"
            ELSE IF ArgDepth(c) \in {5, 10, 20}
            THEN /\ Cardinality(WsBy(c, "subscribe_partial_book_depth")) = 1
                 /\ \A k \in WsBy(c, "subscribe_partial_book_depth") :
                        ws_calls[k].depth = ArgDepth(c)
                 /\ WsBy(c, "subscribe_diff_book_depth") = {}
                 /\ sub_calls[c].pc = "await_subscribe_partial" => SnapshotRequestsBy(c) = {}
                 /\ sub_calls[c].pc \in {"await_snapshot", "done"}
                        => /\ Cardinality(SnapshotRequestsBy(c)) = 1
                           /\ \A k \in SnapshotRequestsBy(c) :
                                  http_calls[k].limit = ArgDepth(c)
                 /\ sub_calls[c].pc = "done"
                        => \E k \in DeliveredBy(c) : data[k].kind = "snapshot"
            ELSE /\ WsBy(c, "subscribe_diff_book_depth") = {}
                 /\ WsBy(c, "subscribe_partial_book_depth") = {}
                 /\ SnapshotRequestsBy(c) = {}

\* a call that subscribes to a stream leaves its instrument with an empty
\* pending buffer, and the instrument has none once the call has returned
C6_BufferingUntilReturn ==
    \A c \in CallIds :
        /\ (sub_calls[c].pc = "idle"
            /\ sub_calls'[c].pc \in {"await_subscribe_diff", "await_subscribe_partial"})
               => /\ sub_calls'[c].instrument_id \in DOMAIN book_buffer'
                  /\ book_buffer'[sub_calls'[c].instrument_id] = << >>
        /\ (sub_calls[c].pc # "done" /\ sub_calls'[c].pc = "done")
               => sub_calls[c].instrument_id \notin DOMAIN book_buffer'

\* C6 (amended): a depth unset, zero or greater than 20 subscribes to the diff
\* stream only and requests no snapshot; a depth in {5, 10, 20} subscribes to
\* the partial-depth stream and fetches a snapshot; a depth from 1 to 20 that
\* is none of 5, 10, 20 subscribes to no stream and requests no snapshot.  On
\* either stream the instrument is Buffering from the call on and Synced when
\* the call returns.
C6_StreamSelectionByRange ==
    []C6_StreamsByDepth /\ [][C6_BufferingUntilReturn]_vars

\* C6 witness: a call of depth 50 has returned, on the diff stream
C6_Witness ==
    \E c \in CallIds :
        /\ ArgDepth(c) = 50
        /\ sub_calls[c].pc = "done"
        /\ WsBy(c, "subscribe_diff_book_depth") # {}

(***************************************************************************)
(* C7.  Book depth validation.                                             *)
(***************************************************************************)
\* the call was rejected for its depth: it subscribed to nothing, requested
\* nothing and delivered nothing
RejectedForDepth(c) ==
    /\ sub_calls[c].pc = "rejected_depth"
    /\ \A k \in DOMAIN ws_calls : ws_calls[k].call # c
    /\ SnapshotRequestsBy(c) = {}
    /\ DeliveredBy(c) = {}

\* C7 as stated: a book subscription whose depth is none of 5, 10, 20 is
\* rejected: no stream subscription, no snapshot request, nothing delivered.
C7_UnsupportedDepthRejected ==
    \A c \in CallIds :
        (PastValidation(c) /\ ArgDepth(c) > 0 /\ ArgDepth(c) \notin {5, 10, 20})
            => RejectedForDepth(c)

\* C7 (amended): a book subscription whose depth is from 1 to 20 and none of
\* 5, 10, 20 (such as 7) is rejected: the rejection is reported, and the call
\* issues no stream subscription and no snapshot request and delivers
\* nothing; no other depth is rejected.
C7_DepthInRangeRejected ==
    /\ \A c \in CallIds :
           PastValidation(c) =>
               IF 0 < ArgDepth(c) /\ ArgDepth(c) <= 20 /\ ArgDepth(c) \notin {5, 10, 20}
               THEN RejectedForDepth(c)
               ELSE sub_calls[c].pc # "rejected_depth"
    /\ Cardinality({k \in DOMAIN log_errors : log_errors[k] = "invalid depth"})
           = Cardinality({c \in CallIds : sub_calls[c].pc = "rejected_depth"})

\* C7 witness: a call of depth 7 was rejected
C7_Witness ==
    \E c \in CallIds : ArgDepth(c) = 7 /\ sub_calls[c].pc = "rejected_depth"

(***************************************************************************)
(* C8.  Update speed validation.                                           *)
(***************************************************************************)
\* the update speeds of the claim, by market mode
C8_IsFutures == account_type \in {"USDT_FUTURE", "COIN_FUTURE"}

C8_AllowedSpeeds == IF C8_IsFutures THEN {0, 100, 250, 500} ELSE {100, 1000}

\* the speed a call runs with: the one given, or the mode default
C8_SpeedOf(c) ==
    IF sub_calls[c].arg_speed = None
    THEN (IF C8_IsFutures THEN 0 ELSE 100)
    ELSE sub_calls[c].arg_speed[1]

\* a stream is subscribed with the speed given or the mode default, and a call
\* whose speed is not allowed subscribes to nothing, requests nothing and
\* delivers nothing
C8_SpeedChecked ==
    /\ \A k \in DOMAIN ws_calls :
           ws_calls[k].op \in {"subscribe_diff_book_depth", "subscribe_partial_book_depth"}
               => /\ ws_calls[k].speed = C8_SpeedOf(ws_calls[k].call)
                  /\ ws_calls[k].speed \in C8_AllowedSpeeds
    /\ \A c \in CallIds :
           (sub_calls[c].pc # "idle" /\ C8_SpeedOf(c) \notin C8_AllowedSpeeds)
               => /\ sub_calls[c].pc \in {"rejected_speed", "rejected_book_type"}
                  /\ \A k \in DOMAIN ws_calls : ws_calls[k].call # c
                  /\ SnapshotRequestsBy(c) = {}
                  /\ DeliveredBy(c) = {}

\* the step that rejects a speed reports it and changes nothing else
C8_RejectionChangesNothing ==
    \A c \in CallIds :
        (sub_calls[c].pc = "idle" /\ sub_calls'[c].pc = "rejected_speed")
            => /\ Len(log_errors') = Len(log_errors) + 1
               /\ UNCHANGED <<book_buffer, instrument_ids, stream_seq, data,
                              ws_calls, http_calls>>

\* C8: with no update speed given the mode default is used (0 ms for futures,
\* 100 ms otherwise); a speed outside the mode's allowed set is rejected
\* before any buffer is created and before any network call.
C8_UpdateSpeedValidation ==
    []C8_SpeedChecked /\ [][C8_RejectionChangesNothing]_vars

\* C8 witness: a call given 50 ms was rejected for its speed
C8_Witness ==
    \E c \in CallIds : sub_calls[c].pc = "rejected_speed" /\ sub_calls[c].arg_speed = Some(50)

(***************************************************************************)
(* C9.  Bar subscription validation.                                       *)
(***************************************************************************)
\* the bar subscriptions the claim has rejected
C9_MustBeRejected(bar_type) ==
    \/ bar_type.aggregation \notin {"SECOND", "MINUTE", "HOUR", "DAY", "WEEK", "MONTH"}
    \/ account_type \in {"USDT_FUTURE", "COIN_FUTURE"} /\ bar_type.aggregation = "SECOND"
    \/ <<bar_type.step, ParseInternalBarAgg(bar_type.aggregation)>> \notin KlineIntervals

\* C9 as stated: a bar subscription of non-time aggregation, of an interval
\* the venue does not support or of second resolution on futures issues no
\* transport subscribe call and records no bar subscription.
C9_RejectedBarsNotSubscribed ==
    \A c \in DOMAIN bar_calls :
        C9_MustBeRejected(bar_calls[c].bar_type) =>
            /\ \A k \in DOMAIN ws_calls :
                   ~(ws_calls[k].op = "subscribe_bars" /\ ws_calls[k].call = c)
            /\ bar_calls[c].bar_type \notin subscriptions_bars

(***************************************************************************)
(* C10.  Limit clamping.                                                   *)
(***************************************************************************)
\* C10 as stated: the limit passed to the venue is within 1..1000; a limit
\* absent or out of range becomes 1000, a limit in range is passed unchanged.
C10_LimitClamped ==
    \A k \in DOMAIN http_calls :
        http_calls[k].op \in {"request_trade_ticks", "request_agg_trade_ticks",
                              "request_binance_bars"}
            => LET requested == req_calls[http_calls[k].call].arg_limit
               IN  /\ http_calls[k].limit \in 1..1000
                   /\ http_calls[k].limit =
                          (IF requested \in 1..1000 THEN requested ELSE 1000)

(***************************************************************************)
(* The historical requests: what is read off a state.                      *)
(***************************************************************************)
\* the venue requests a request coroutine has made
HttpBy(c) == {k \in DOMAIN http_calls : http_calls[k].call = c}

\* the responses delivered for a correlation id
ResponsesFor(correlation_id) ==
    {k \in DOMAIN responses : responses[k].correlation_id = correlation_id}

(***************************************************************************)
(* C11.  Rejected historical request.                                      *)
(***************************************************************************)
\* the requests the claim has rejected
C11_MustBeRejected(call) ==
    \/ call.method = "_request_quote_ticks"
    \/ /\ call.method = "_request_bars"
       /\ \/ call.bar_type.aggregation_source = "INTERNAL"
          \/ call.bar_type.aggregation
                 \notin {"MILLISECOND", "SECOND", "MINUTE", "HOUR", "DAY", "WEEK", "MONTH"}
          \/ account_type \notin {"SPOT", "MARGIN"} /\ call.bar_type.aggregation = "SECOND"
          \/ <<call.bar_type.step, ParseInternalBarAgg(call.bar_type.aggregation)>>
                 \notin KlineIntervals
          \/ call.bar_type.price_type # "LAST"

\* C11: a _request_bars call whose parameters are to be rejected (bars
\* aggregated internally, non-time aggregation, second bars on a non-spot
\* mode, an interval the venue has not, a price type other than LAST) and
\* every _request_quote_ticks call issues no venue request, and no response
\* is delivered for its correlation id.
C11_RejectedRequestSilent ==
    \A c \in DOMAIN req_calls :
        C11_MustBeRejected(req_calls[c]) =>
            /\ HttpBy(c) = {}
            /\ ResponsesFor(req_calls[c].correlation_id) = {}

(***************************************************************************)
(* C12.  Accepted historical request.                                      *)
(***************************************************************************)
\* the venue has answered the request the coroutine made (or, for
\* _request_instrument, the provider has found the instrument)
Answered(c) == req_calls[c].pc \in {"done", "pop_raised"}

\* C12: once the venue has answered an accepted request, with an empty list
\* or not, exactly one response carrying the request's correlation id has
\* been delivered; and never more than one.
C12_AnsweredExactlyOnce ==
    \A c \in DOMAIN req_calls :
        /\ Cardinality(ResponsesFor(req_calls[c].correlation_id)) <= 1
        /\ Answered(c) => Cardinality(ResponsesFor(req_calls[c].correlation_id)) = 1

(***************************************************************************)
(* C13.  Partial-bar split.                                                *)
(***************************************************************************)
\* the items of a sequence
Items(seq) == {seq[k] : k \in DOMAIN seq}

\* C13: when the venue answers a bar request with N + 1 bars (N >= 0), the one
\* response delivered holds the first N bars in order as the completed bars
\* and the last bar as the partial bar, which is not among the completed.
C13_PartialBarSplit ==
    \A c \in DOMAIN req_calls :
        (req_calls[c].method = "_request_bars" /\ req_calls[c].returned # << >>) =>
            LET bars == req_calls[c].returned
                N == Len(bars) - 1
            IN  /\ Cardinality(ResponsesFor(req_calls[c].correlation_id)) = 1
                /\ \A k \in ResponsesFor(req_calls[c].correlation_id) :
                       /\ responses[k].method = "_handle_bars"
                       /\ responses[k].items = SubSeq(bars, 1, N)
                       /\ responses[k].partial = Some(bars[N + 1])
                       /\ bars[N + 1] \notin Items(responses[k].items)

\* C13 witness: a bar request answered with more than one bar
C13_Witness ==
    \E c \in DOMAIN req_calls :
        /\ req_calls[c].method = "_request_bars"
        /\ req_calls[c].pc = "done"
        /\ Len(req_calls[c].returned) >= 2

(***************************************************************************)
(* The dispatcher: what is read off a step.                                *)
(***************************************************************************)
\* the step is a call of _handle_ws_message
FrameStep == n_frames' = n_frames + 1

\* the frame the call of this step was given
FrameOfStep == ValueOf(last_frame')

\* the step gave _handle_data one more item
DeliveredInStep == Len(data') = Len(data) + 1 /\ SubSeq(data', 1, Len(data)) = data

(***************************************************************************)
(* C14.  Per-frame error containment.                                      *)
(***************************************************************************)
\* C14: for every inbound frame, one whose envelope or payload does not
\* decode and one whose handler raises among them, _handle_ws_message returns
\* normally: no exception leaves it.
C14_NoExceptionLeavesHandler == ws_raised = 0

(***************************************************************************)
(* C15.  Unrecognized topic.                                               *)
(***************************************************************************)
\* a frame of a stream the client has registered no handler for
C15_Unrecognized(frame) ==
    /\ frame.wrapper_ok
    /\ frame.stream \in {StreamSymbol(symbol) \o StreamSuffixes.miniTicker :
                            symbol \in Symbols}

C15_Step ==
    (FrameStep /\ C15_Unrecognized(FrameOfStep)) =>
        /\ data' = data
        /\ instrument_ids' = instrument_ids
        /\ book_buffer' = book_buffer
        /\ ws_raised' = ws_raised
        /\ log_errors' = Append(log_errors, "unrecognized websocket message type")

\* C15: a frame whose stream holds none of the registered fragments delivers
\* nothing to the consumer, leaves the symbol cache and the book buffers as
\* they are, and is reported as unrecognized without raising.
C15_UnrecognizedTopicReported == [][C15_Step]_vars

\* C15 witness: an unrecognized frame was handled while a book buffer was pending
C15_Witness ==
    /\ last_frame # None
    /\ C15_Unrecognized(ValueOf(last_frame))
    /\ book_buffer # << >>

(***************************************************************************)
(* C16.  Closed-candle filter.                                             *)
(***************************************************************************)
\* a kline frame that decodes
C16_IsKline(frame) ==
    /\ frame.wrapper_ok
    /\ frame.payload_ok
    /\ frame.stream = StreamSymbol(frame.s) \o StreamSuffixes.kline

C16_Step ==
    (FrameStep /\ C16_IsKline(FrameOfStep)) =>
        IF FrameOfStep.x
        THEN /\ DeliveredInStep
             /\ data'[Len(data')].kind = "bar"
             /\ data'[Len(data')].instrument_id = SymbolId(FrameOfStep.s)
        ELSE /\ data' = data
             /\ instrument_ids' = instrument_ids
             /\ log_errors' = log_errors

\* C16: a kline frame whose candle is closed is delivered to the consumer as
\* exactly one bar; one whose candle is still open is dropped: nothing is
\* delivered and the symbol cache gets no entry.
C16_ClosedCandleFilter == [][C16_Step]_vars

\* C16 witness: a closed candle was delivered and then an open one dropped
C16_Witness ==
    /\ last_frame # None
    /\ C16_IsKline(ValueOf(last_frame))
    /\ ~ValueOf(last_frame).x
    /\ Len(data) = 1
    /\ data[1].kind = "bar"

(***************************************************************************)
(* C17.  Idempotent symbol resolution.                                     *)
(***************************************************************************)
C17_Step ==
    /\ \A k \in DOMAIN instrument_ids :
           k \in DOMAIN instrument_ids' /\ instrument_ids'[k] = instrument_ids[k]
    /\ (FrameStep /\ DeliveredInStep /\ data'[Len(data')].call = 0) =>
           LET nautilus_symbol == ParseAsNautilus(FrameOfStep.s, account_type)
           IN  /\ nautilus_symbol \in DOMAIN instrument_ids'
               /\ data'[Len(data')].instrument_id = instrument_ids'[nautilus_symbol]

\* C17: an entry of the symbol cache never changes, and the id every handler
\* resolves for a venue symbol is the cache's entry for it: the same symbol
\* gives the same id in every call, the first one included.
C17_IdempotentResolution == [][C17_Step]_vars

\* C17 witness: the handlers resolved one symbol twice and the cache holds
\* its one entry
C17_Witness ==
    /\ \E j, k \in DOMAIN data :
           j < k /\ data[j].call = 0 /\ data[k].call = 0
                 /\ data[j].instrument_id = data[k].instrument_id
    /\ Cardinality(DOMAIN instrument_ids) = 1

(***************************************************************************)
(* C18.  Exactly one RefreshTask.                                          *)
(***************************************************************************)
\* the refresh tasks that have neither finished nor been cancelled
LiveTasks == {t \in DOMAIN tasks : IsPending(tasks[t]) /\ ~tasks[t].cancel_requested}

\* C18: after any sequence of _connect and _disconnect calls at most one
\* instrument refresh task that is not cancelled exists, and exactly one
\* exists while the adapter is connected.
C18_ExactlyOneRefreshTask ==
    /\ Cardinality(LiveTasks) <= 1
    /\ Connected => Cardinality(LiveTasks) = 1

(***************************************************************************)
(* C19.  Cancellation during sleep.                                        *)
(***************************************************************************)
C19_Step ==
    \A t \in DOMAIN tasks :
        /\ (tasks[t].pc = "sleeping" /\ tasks[t].cancel_requested /\ tasks'[t] # tasks[t])
               => /\ tasks'[t].pc = "cancelled"
                  /\ tasks'[t].loads = tasks[t].loads
                  /\ tasks'[t].pushes = tasks[t].pushes
                  /\ data' = data
                  /\ log_errors' = log_errors
        /\ tasks[t].pc = "cancelled" => tasks'[t] = tasks[t]

\* C19: a refresh task cancelled while it sleeps ends there: it starts no
\* reload and pushes no instruments, then or later, and nothing is logged as
\* an error.
C19_CancelledInSleepStops == [][C19_Step]_vars

\* C19 witness: a task that had reloaded once was cancelled in its sleep
C19_Witness ==
    \E t \in DOMAIN tasks :
        /\ tasks[t].pc = "cancelled"
        /\ tasks[t].cancelled_at = "sleeping"
        /\ tasks[t].pushes = 1

(***************************************************************************)
(* C20.  Cancellation during reload.                                       *)
(***************************************************************************)
\* C20: a refresh task cancelled while a reload is in flight stops only once
\* that reload has finished and its instruments were pushed: it is never
\* stopped at the reload, and every reload it started was pushed.
C20_ReloadFinishesBeforeStop ==
    \A t \in DOMAIN tasks :
        tasks[t].pc = "cancelled" =>
            /\ tasks[t].cancelled_at # "loading"
            /\ tasks[t].pushes = tasks[t].loads

(***************************************************************************)
(* C21.  No callbacks after disconnect.                                    *)
(***************************************************************************)
\* a _disconnect has completed, and no _connect has completed or is under
\* way since
IsDisconnected ==
    /\ \E c \in DOMAIN disconnect_calls : disconnect_calls[c] = "done"
    /\ update_instruments_task = None
    /\ \A c \in DOMAIN connect_calls : connect_calls[c] # "await_initialize"

C21_Step == IsDisconnected => data' = data /\ responses' = responses

\* C21: once _disconnect has completed, no consumer data callback and no
\* response callback fires, whatever book subscription, historical request or
\* refresh task was in flight.
C21_NoCallbackAfterDisconnect == [][C21_Step]_vars

(***************************************************************************)
(* C22.  Reconnect reset.                                                  *)
(***************************************************************************)
\* the step completes a _connect that follows a completed _disconnect
ReconnectStep ==
    /\ update_instruments_task = None
    /\ update_instruments_task' # None
    /\ \E c \in DOMAIN disconnect_calls : disconnect_calls[c] = "done"

C22_Step ==
    ReconnectStep =>
        \A c \in CallIds :
            sub_calls[c].pc = "done" => sub_calls[c].instrument_id \in DOMAIN book_buffer'

\* C22: when a connect follows a disconnect, every instrument that had a book
\* subscription is Buffering again: it has a pending buffer, so that the
\* deltas arriving after the reconnect are held back.
C22_ReconnectResetsBookState == [][C22_Step]_vars


(***************************************************************************)
(* Re-subscription.                                                        *)
(***************************************************************************)
\* the step is the start of a _subscribe_order_book call whose arguments are
\* those of an earlier call that has completed, while no call for the
\* instrument is in flight
ResubscribeStep ==
    /\ n_calls' = n_calls + 1
    /\ \E c1 \in 1..n_calls :
           /\ sub_calls[c1].pc = "done"
           /\ sub_calls'[n_calls'].instrument_id = sub_calls[c1].instrument_id
           /\ sub_calls'[n_calls'].book_type = sub_calls[c1].book_type
           /\ sub_calls'[n_calls'].arg_speed = sub_calls[c1].arg_speed
           /\ sub_calls'[n_calls'].arg_depth = sub_calls[c1].arg_depth
    /\ \A c \in 1..n_calls :
           sub_calls[c].instrument_id = sub_calls'[n_calls'].instrument_id
               => sub_calls[c].pc \notin {"await_subscribe_partial", "await_snapshot",
                                          "await_subscribe_diff"}

C23_Step ==
    ResubscribeStep =>
        /\ ws_calls' = ws_calls
        /\ http_calls' = http_calls
        /\ data' = data
        /\ book_buffer' = book_buffer

\* C23: a second _subscribe_order_book call for the same instrument with the
\* same arguments, made after the first has completed, is a no-op: it
\* issues no stream subscribe and no snapshot request, delivers nothing and
\* leaves the instrument's pending buffer as it was.
C23_ResubscribeIsNoOp == [][C23_Step]_vars


(***************************************************************************)
(* The order of _connect.                                                  *)
(***************************************************************************)
\* the _connect calls that got past initialize()
ConnectsDone == {c \in DOMAIN connect_calls : connect_calls[c] = "done"}

\* the instruments given to _handle_data so far
InstrumentPushes == {k \in DOMAIN data : data[k].kind = "instrument"}

\* the pushes the tasks have made
RECURSIVE TaskPushes(_)
TaskPushes(t) == IF t = 0 THEN 0 ELSE tasks[t].pushes + TaskPushes(t - 1)

\* the step in which a _connect call returns from initialize()
C24_ConnectStep(c) ==
    /\ c \in DOMAIN connect_calls
    /\ connect_calls[c] = "await_initialize"
    /\ connect_calls'[c] = "done"

C24_Step ==
    /\ \A c \in DOMAIN connect_calls' :
           C24_ConnectStep(c) =>
               /\ Len(data') = Len(data) + Cardinality(ProviderInstruments)
               /\ SubSeq(data', 1, Len(data)) = data
               /\ \A id \in ProviderInstruments :
                      \E k \in (Len(data) + 1)..Len(data') :
                          data'[k].kind = "instrument" /\ data'[k].instrument_id = id
               /\ tasks' = Append(tasks, Task("created", FALSE, 0, 0, ""))
               /\ update_instruments_task' = Some(Len(tasks'))
    /\ Len(tasks') # Len(tasks) => \E c \in DOMAIN connect_calls : C24_ConnectStep(c)

C24_Order ==
    /\ Len(tasks) = Cardinality(ConnectsDone)
    /\ Cardinality(InstrumentPushes)
           = (Cardinality(ConnectsDone) + TaskPushes(Len(tasks)))
                 * Cardinality(ProviderInstruments)
    /\ ConnectsDone = {} => InstrumentPushes = {}
    /\ \A t \in DOMAIN tasks :
           tasks[t].pc # "created" =>
               Cardinality(InstrumentPushes) >= Cardinality(ProviderInstruments)

\* C24: _connect awaits initialize(), then gives every instrument of the
\* provider to the consumer and then creates the refresh task, in one
\* stretch: no instrument is delivered while no _connect has got past
\* initialize(), a task exists only for a _connect that has pushed, and a
\* task that has run finds the first push made.
C24_ConnectOrdering == []C24_Order /\ [][C24_Step]_vars

\* a _connect has completed, its instruments are delivered and its task has
\* started to run
C24_Witness ==
    /\ ConnectsDone # {}
    /\ InstrumentPushes # {}
    /\ \E t \in DOMAIN tasks : tasks[t].pc = "sleeping" /\ tasks[t].pushes = 0


(***************************************************************************)
(* _disconnect, called in any state of the refresh task.                   *)
(***************************************************************************)
\* the step is the start of a _disconnect call
C25_DisconnectStep == Len(disconnect_calls') = Len(disconnect_calls) + 1

\* the task the handle names has stopped: it was cancelled, or it failed
C25_Stopped(t) == tasks[t].pc \in {"cancelled", "failed"}

C25_Step ==
    C25_DisconnectStep =>
        /\ update_instruments_task' = None
        /\ Len(ws_calls') = Len(ws_calls) + 1
        /\ ws_calls'[Len(ws_calls')].op = "disconnect"
        /\ disconnect_calls'[Len(disconnect_calls')] = "await_ws_disconnect"
        /\ data' = data /\ log_errors' = log_errors
        /\ IF update_instruments_task = None
           THEN tasks' = tasks
           ELSE LET t == ValueOf(update_instruments_task)
                IN  IF C25_Stopped(t)
                    THEN tasks' = tasks
                    ELSE tasks' = [tasks EXCEPT ![t].cancel_requested = TRUE]

\* C25: _disconnect asks the refresh task its handle names to stop and
\* closes the websocket client; when the handle is empty (no task was
\* started, or an earlier _disconnect dropped it) or names a task that has
\* stopped, no task is changed and nothing is logged; after any _disconnect
\* the handle is empty.
C25_DisconnectIdempotent == [][C25_Step]_vars

\* two _disconnect calls were made: one cancelled a task, and one found the
\* handle naming the last task after its reload had failed (a failed task
\* was never asked to stop, so the handle was dropped after it failed)
C25_Witness ==
    /\ Len(disconnect_calls) >= 2
    /\ update_instruments_task = None
    /\ \E t \in DOMAIN tasks : tasks[t].cancel_requested
    /\ tasks # << >> /\ tasks[Len(tasks)].pc = "failed"


(***************************************************************************)
(* The refresh loop and a reload that fails.                               *)
(***************************************************************************)
\* C26: a refresh task that was not asked to stop is in its loop (waiting
\* for its first run, sleeping, or reloading): it stops on cancellation
\* alone, and a load_all_async() that raises does not end it.
C26_RefreshSurvivesFailedReload ==
    \A t \in DOMAIN tasks :
        ~tasks[t].cancel_requested => tasks[t].pc \in {"created", "sleeping", "loading"}


(***************************************************************************)
(* The routing of the book frames.                                         *)
(***************************************************************************)
C27_IsPartialDepth(frame) ==
    /\ frame.wrapper_ok
    /\ \E symbol \in Symbols, topic \in PartialDepthTopics :
           frame.stream = BookStream(symbol, topic)

C27_IsDiff(frame) ==
    /\ frame.wrapper_ok
    /\ \E symbol \in Symbols : frame.stream = BookStream(symbol, "depth")

\* the instrument a frame is of
C27_InstrumentId(frame) == InstrumentId(ParseAsNautilus(frame.s, account_type))

\* what the partial-depth handler alone does: it raises, which is reported
C27_PartialEffect ==
    /\ data' = data
    /\ book_buffer' = book_buffer
    /\ log_errors' = Append(log_errors, "error handling websocket message")

\* what the diff handler alone does with a frame that decodes: the deltas
\* are buffered or delivered, once
C27_DiffEffect(frame) ==
    LET id == C27_InstrumentId(frame)
        book_deltas == Deltas(id, frame.u)
    IN  /\ log_errors' = log_errors
        /\ IF id \in DOMAIN book_buffer
           THEN /\ data' = data
                /\ book_buffer' = [book_buffer EXCEPT ![id] = Append(@, book_deltas)]
           ELSE /\ data' = Append(data, Delivery("deltas", book_deltas, 0))
                /\ book_buffer' = book_buffer

C27_Step ==
    /\ (FrameStep /\ C27_IsPartialDepth(FrameOfStep)) =>
           /\ MatchingHandlers(1, FrameOfStep.stream) = <<"_handle_book_partial_update">>
           /\ C27_PartialEffect
    /\ (FrameStep /\ C27_IsDiff(FrameOfStep)) =>
           /\ MatchingHandlers(1, FrameOfStep.stream) = <<"_handle_book_diff_update">>
           /\ FrameOfStep.payload_ok => C27_DiffEffect(FrameOfStep)

\* C27: a frame of a partial-depth stream (@depth5, @depth10, @depth20) is
\* given to the partial-depth handler and to no other, and a frame of the
\* diff stream (@depth@) to the diff handler and to no other: each book
\* frame is handled by exactly one book handler, as its effect shows.
C27_BookFrameRouting == [][C27_Step]_vars

\* a partial-depth frame was handled (and reported) after a diff frame was
\* delivered
C27_Witness ==
    /\ last_frame # None
    /\ C27_IsPartialDepth(ValueOf(last_frame))
    /\ ValueOf(last_frame).stream = BookStream("BTCUSDT", "depth10")
    /\ \E k \in DOMAIN data : data[k].kind = "deltas"
    /\ \E k \in DOMAIN log_errors : log_errors[k] = "error handling websocket message"


(***************************************************************************)
(* Two instruments side by side.                                           *)
(***************************************************************************)
\* the pending buffer of an instrument, if it has one
C28_BufferOf(buffer, id) == IF id \in DOMAIN buffer THEN Some(buffer[id]) ELSE None

\* the step appends to what the consumer was given, and the items appended
C28_Extends == Len(data') >= Len(data) /\ SubSeq(data', 1, Len(data)) = data

C28_Appended == SubSeq(data', Len(data) + 1, Len(data'))

\* a diff frame of an instrument leaves the buffer of every other one as it
\* was, and is delivered in the step unless its own instrument is buffering
C28_FrameStep ==
    FrameStep =>
        LET id == C27_InstrumentId(FrameOfStep)
        IN  /\ \A other \in InstrumentIds \ {id} :
                   C28_BufferOf(book_buffer', other) = C28_BufferOf(book_buffer, other)
            /\ id \notin DOMAIN book_buffer =>
                   data' = Append(data, Delivery("deltas", Deltas(id, FrameOfStep.u), 0))
            /\ id \in DOMAIN book_buffer =>
                   /\ data' = data
                   /\ book_buffer'[id] = Append(book_buffer[id], Deltas(id, FrameOfStep.u))

\* a step of a _subscribe_order_book call leaves the buffer of every other
\* instrument as it was and delivers items of its own instrument alone
C28_CallStep ==
    \A c \in CallIds :
        sub_calls'[c] # sub_calls[c] =>
            LET id == sub_calls'[c].instrument_id
            IN  /\ \A other \in InstrumentIds \ {id} :
                       C28_BufferOf(book_buffer', other) = C28_BufferOf(book_buffer, other)
                /\ \A k \in DOMAIN C28_Appended : C28_Appended[k].instrument_id = id

C28_Step == C28_Extends /\ C28_FrameStep /\ C28_CallStep

\* C28: while an instrument is Buffering, the deltas of another instrument
\* are delivered as they arrive, in their order, and none is buffered or
\* dropped; no step of a subscription or of a frame of one instrument
\* changes the pending buffer of another.
C28_PerInstrumentIndependence == [][C28_Step]_vars

\* the last frame handled was of an instrument that is Synced and was
\* delivered, while the other instrument is Buffering with deltas pending
C28_Witness ==
    /\ last_frame # None
    /\ data # << >>
    /\ LET id == C27_InstrumentId(ValueOf(last_frame))
       IN  /\ id \notin DOMAIN book_buffer
           /\ data[Len(data)] = Delivery("deltas", Deltas(id, ValueOf(last_frame).u), 0)
           /\ \E other \in InstrumentIds \ {id} :
                  other \in DOMAIN book_buffer /\ book_buffer[other] # << >>


(***************************************************************************)
(* The pending buffer once the calls have ended.                           *)
(***************************************************************************)
\* a _subscribe_order_book call for the instrument stands at an await
C29_InFlight(id) ==
    \E c \in CallIds :
        /\ sub_calls[c].instrument_id = id
        /\ sub_calls[c].pc \in {"await_subscribe_partial", "await_snapshot",
                                "await_subscribe_diff"}

\* C29: an instrument no _subscribe_order_book call is in flight for has no
\* pending buffer, whether its calls completed, were rejected for their
\* depth, or ended on an exception of the subscribe or snapshot request.
C29_NoStuckBuffering ==
    \A id \in DOMAIN book_buffer : C29_InFlight(id)


(***************************************************************************)
(* Overlapping subscriptions of one instrument.                            *)
(***************************************************************************)
\* the deltas pending for an instrument
C30_Pending(buffer, id) ==
    IF id \in DOMAIN buffer THEN {buffer[id][k] : k \in DOMAIN buffer[id]} ELSE {}

\* a delta that leaves the pending buffer in a step is given to the consumer
\* in that step, or a snapshot given to the consumer holds it already
C30_Step ==
    \A id \in DOMAIN book_buffer :
        \A deltas \in C30_Pending(book_buffer, id) \ C30_Pending(book_buffer', id) :
            \/ \E k \in (Len(data) + 1)..Len(data') :
                   /\ data'[k].kind = "deltas"
                   /\ data'[k].instrument_id = id
                   /\ data'[k].sequence = deltas.sequence
            \/ \E k \in DOMAIN data' :
                   /\ data'[k].kind = "snapshot"
                   /\ data'[k].instrument_id = id
                   /\ data'[k].sequence >= deltas.sequence

\* C30: when _subscribe_order_book calls for one instrument overlap, every
\* delta that was appended to the pending buffer is delivered to the
\* consumer or is discarded for a delivered snapshot that holds it; the
\* second call does not drop buffered deltas by resetting the buffer.
C30_OverlapLosesNothing == [][C30_Step]_vars

=============================================================================
